---- MODULE Spec2Model ----
(***************************************************************************)
(* Place-discovery app: the recommendation aggregation pipeline            *)
(* (services/gemini.ts: getRecommendations, getRecommendationsWithFoursquare)*)
(* and the grid cache in front of it (services/storage.ts).                *)
(*                                                                         *)
(* Conventions                                                             *)
(*   - a JavaScript string that the code inspects character by character   *)
(*     (names, category names, place types) is a sequence of one-character *)
(*     strings, so toLowerCase, trim and includes are computed;            *)
(*   - opaque strings (ids, enum values) are TLA+ strings;                 *)
(*   - a latitude or longitude is an integer number of 1/1000 degree;      *)
(*   - a distance or radius is an integer number of 1/100 km;              *)
(*   - the clock is an integer number of hours;                            *)
(*   - a rating is an integer number of tenths of a star.                  *)
(***************************************************************************)
EXTENDS Integers, Sequences, FiniteSets, TLC

(***************************************************************************)
(* JavaScript values and string primitives                                 *)
(***************************************************************************)

\* the JavaScript value undefined, for an optional string field or argument
Undefined == "undefined"

\* truthiness of an optional string: undefined and "" are falsy
Truthy(s) == s # Undefined /\ s # ""

\* part_006:285-297, every entry as a sequence of characters
CHAIN_BLOCKLIST ==
  {
    <<"m","c","d","o","n","a","l","d","s">>, <<"m","c","d","o","n","a","l","d","'","s">>,
    <<"b","u","r","g","e","r"," ","k","i","n","g">>, <<"w","e","n","d","y","'","s">>,
    <<"w","e","n","d","y","s">>, <<"d","u","n","k","i","n">>,
    <<"d","u","n","k","i","n"," ","d","o","n","u","t","s">>, <<"d","u","n","k","i","n","'">>,
    <<"s","t","a","r","b","u","c","k","s">>, <<"s","u","b","w","a","y">>,
    <<"t","a","c","o"," ","b","e","l","l">>, <<"k","f","c">>, <<"p","o","p","e","y","e","s">>,
    <<"c","h","i","p","o","t","l","e">>, <<"p","a","n","e","r","a"," ","b","r","e","a","d">>,
    <<"f","i","v","e"," ","g","u","y","s">>, <<"c","h","i","c","k","-","f","i","l","-","a">>,
    <<"c","h","i","c","k"," ","f","i","l"," ","a">>,
    <<"s","o","n","i","c"," ","d","r","i","v","e","-","i","n">>, <<"s","o","n","i","c">>,
    <<"a","r","b","y","'","s">>, <<"a","r","b","y","s">>, <<"p","i","z","z","a"," ","h","u","t">>,
    <<"d","o","m","i","n","o","s">>, <<"d","o","m","i","n","o","'","s">>,
    <<"p","a","p","a"," ","j","o","h","n","'","s">>, <<"p","a","p","a"," ","j","o","h","n","s">>,
    <<"a","p","p","l","e","b","e","e","'","s">>, <<"a","p","p","l","e","b","e","e","s">>,
    <<"o","l","i","v","e"," ","g","a","r","d","e","n">>,
    <<"r","e","d"," ","l","o","b","s","t","e","r">>, <<"c","h","i","l","i","'","s">>,
    <<"c","h","i","l","i","s">>,
    <<"o","u","t","b","a","c","k"," ","s","t","e","a","k","h","o","u","s","e">>,
    <<"b","u","f","f","a","l","o"," ","w","i","l","d"," ","w","i","n","g","s">>,
    <<"i","h","o","p">>, <<"d","e","n","n","y","'","s">>, <<"d","e","n","n","y","s">>,
    <<"w","a","f","f","l","e"," ","h","o","u","s","e">>,
    <<"p","a","n","d","a"," ","e","x","p","r","e","s","s">>,
    <<"d","a","i","r","y"," ","q","u","e","e","n">>,
    <<"t","g","i"," ","f","r","i","d","a","y","s">>,
    <<"t","g","i"," ","f","r","i","d","a","y","'","s">>,
    <<"t","e","x","a","s"," ","r","o","a","d","h","o","u","s","e">>
  }

\* part_006:743-752 (getRecommendations)
invalidKeywordsGoogle ==
  {
    <<"c","v","s">>, <<"w","a","l","g","r","e","e","n","s">>, <<"p","h","a","r","m","a","c","y">>,
    <<"d","r","u","g","s","t","o","r","e">>, <<"r","i","t","e"," ","a","i","d">>,
    <<"m","a","r","k","e","t"," ","b","a","s","k","e","t">>, <<"g","r","o","c","e","r","y">>,
    <<"s","u","p","e","r","m","a","r","k","e","t">>, <<"w","a","l","m","a","r","t">>,
    <<"t","a","r","g","e","t">>, <<"s","a","f","e","w","a","y">>,
    <<"w","h","o","l","e"," ","f","o","o","d","s">>,
    <<"s","t","o","p"," ","&"," ","s","h","o","p">>, <<"t","r","a","d","e","r"," ","j","o","e">>,
    <<"g","a","s"," ","s","t","a","t","i","o","n">>, <<"s","h","e","l","l">>,
    <<"c","h","e","v","r","o","n">>, <<"e","x","x","o","n">>, <<"b","p">>,
    <<"7","-","e","l","e","v","e","n">>, <<"b","a","n","k">>, <<"c","h","a","s","e">>,
    <<"w","e","l","l","s"," ","f","a","r","g","o">>, <<"c","i","t","i","b","a","n","k">>,
    <<"a","t","m">>, <<"c","l","i","n","i","c">>, <<"h","o","s","p","i","t","a","l">>,
    <<"u","r","g","e","n","t"," ","c","a","r","e">>,
    <<"m","e","d","i","c","a","l"," ","c","e","n","t","e","r">>,
    <<"m","e","m","o","r","i","a","l"," ","h","o","s","p","i","t","a","l">>,
    <<"p","o","s","t"," ","o","f","f","i","c","e">>, <<"u","s","p","s">>, <<"f","e","d","e","x">>,
    <<"u","p","s">>, <<"l","a","u","n","d","r","o","m","a","t">>,
    <<"d","r","y"," ","c","l","e","a","n">>, <<"c","a","r"," ","w","a","s","h">>,
    <<"r","e","s","t","a","u","r","a","n","t"," ","d","e","p","o","t">>,
    <<"r","e","s","t","a","u","r","a","n","t"," ","s","u","p","p","l","y">>,
    <<"f","o","o","d"," ","s","e","r","v","i","c","e"," ","s","u","p","p","l","y">>,
    <<"w","h","o","l","e","s","a","l","e">>
  }

\* part_006:1164-1178 (getRecommendationsWithFoursquare)
invalidKeywordsFoursquare ==
  {
    <<"c","v","s">>, <<"w","a","l","g","r","e","e","n","s">>, <<"p","h","a","r","m","a","c","y">>,
    <<"d","r","u","g","s","t","o","r","e">>, <<"r","i","t","e"," ","a","i","d">>,
    <<"m","a","r","k","e","t"," ","b","a","s","k","e","t">>, <<"g","r","o","c","e","r","y">>,
    <<"s","u","p","e","r","m","a","r","k","e","t">>, <<"w","a","l","m","a","r","t">>,
    <<"t","a","r","g","e","t">>, <<"s","a","f","e","w","a","y">>,
    <<"w","h","o","l","e"," ","f","o","o","d","s">>,
    <<"s","t","o","p"," ","&"," ","s","h","o","p">>, <<"t","r","a","d","e","r"," ","j","o","e">>,
    <<"h","o","m","e","g","o","o","d","s">>, <<"h","o","m","e"," ","g","o","o","d","s">>,
    <<"t","j"," ","m","a","x","x">>, <<"t","j","m","a","x","x">>,
    <<"m","a","r","s","h","a","l","l","s">>, <<"r","o","s","s">>, <<"b","u","t","c","h","e","r">>,
    <<"m","e","a","t"," ","m","a","r","k","e","t">>,
    <<"f","i","s","h"," ","m","a","r","k","e","t">>,
    <<"g","a","s"," ","s","t","a","t","i","o","n">>, <<"s","h","e","l","l">>,
    <<"c","h","e","v","r","o","n">>, <<"e","x","x","o","n">>, <<"b","p">>,
    <<"7","-","e","l","e","v","e","n">>, <<"b","a","n","k">>, <<"c","h","a","s","e">>,
    <<"w","e","l","l","s"," ","f","a","r","g","o">>, <<"c","i","t","i","b","a","n","k">>,
    <<"a","t","m">>, <<"c","l","i","n","i","c">>, <<"h","o","s","p","i","t","a","l">>,
    <<"u","r","g","e","n","t"," ","c","a","r","e">>,
    <<"m","e","d","i","c","a","l"," ","c","e","n","t","e","r">>,
    <<"m","e","m","o","r","i","a","l"," ","h","o","s","p","i","t","a","l">>,
    <<"w","h","i","d","d","e","n">>, <<"p","o","s","t"," ","o","f","f","i","c","e">>,
    <<"u","s","p","s">>, <<"f","e","d","e","x">>, <<"u","p","s">>,
    <<"l","a","u","n","d","r","o","m","a","t">>, <<"d","r","y"," ","c","l","e","a","n">>,
    <<"c","a","r"," ","w","a","s","h">>,
    <<"r","e","s","t","a","u","r","a","n","t"," ","d","e","p","o","t">>,
    <<"r","e","s","t","a","u","r","a","n","t"," ","s","u","p","p","l","y">>,
    <<"f","o","o","d"," ","s","e","r","v","i","c","e"," ","s","u","p","p","l","y">>,
    <<"w","h","o","l","e","s","a","l","e">>, <<"t","u","x","e","d","o">>,
    <<"t","u","x"," ","r","e","n","t","a","l">>, <<"f","o","r","m","a","l"," ","w","e","a","r">>,
    <<"p","a","i","n","t","b","a","l","l">>, <<"l","a","s","e","r"," ","t","a","g">>,
    <<"a","u","t","o">>, <<"c","a","r"," ","d","e","a","l","e","r">>,
    <<"s","e","r","v","i","c","e"," ","c","e","n","t","e","r">>
  }

\* part_006:1211-1216
nonHospitalityCategories ==
  {
    <<"s","t","o","r","e">>, <<"s","h","o","p">>, <<"m","a","r","k","e","t">>,
    <<"r","e","t","a","i","l">>, <<"c","l","o","t","h","i","n","g">>,
    <<"a","p","p","a","r","e","l">>, <<"f","u","r","n","i","t","u","r","e">>,
    <<"h","a","r","d","w","a","r","e">>, <<"a","u","t","o","m","o","t","i","v","e">>,
    <<"s","p","o","r","t","i","n","g"," ","g","o","o","d","s">>,
    <<"d","e","p","a","r","t","m","e","n","t">>, <<"d","i","s","c","o","u","n","t">>,
    <<"p","h","a","r","m","a","c","y">>, <<"d","r","u","g","s","t","o","r","e">>,
    <<"g","r","o","c","e","r","y">>, <<"s","u","p","e","r","m","a","r","k","e","t">>,
    <<"b","a","n","k">>, <<"a","t","m">>, <<"g","a","s"," ","s","t","a","t","i","o","n">>,
    <<"s","e","r","v","i","c","e"," ","s","t","a","t","i","o","n">>,
    <<"m","e","d","i","c","a","l">>, <<"h","o","s","p","i","t","a","l">>,
    <<"c","l","i","n","i","c">>
  }

\* foursquare.ts:326-331 (mapFoursquareCategory)
nonHospitalityKeywords ==
  {
    <<"s","t","o","r","e">>, <<"s","h","o","p">>, <<"r","e","t","a","i","l">>,
    <<"c","l","o","t","h","i","n","g">>, <<"a","p","p","a","r","e","l">>,
    <<"f","u","r","n","i","t","u","r","e">>, <<"h","a","r","d","w","a","r","e">>,
    <<"a","u","t","o","m","o","t","i","v","e">>,
    <<"s","p","o","r","t","i","n","g"," ","g","o","o","d","s">>,
    <<"d","e","p","a","r","t","m","e","n","t">>, <<"d","i","s","c","o","u","n","t">>,
    <<"g","r","o","c","e","r","y">>, <<"s","u","p","e","r","m","a","r","k","e","t">>,
    <<"p","h","a","r","m","a","c","y">>, <<"d","r","u","g","s","t","o","r","e">>,
    <<"b","a","n","k">>, <<"a","t","m">>, <<"g","a","s"," ","s","t","a","t","i","o","n">>,
    <<"m","e","d","i","c","a","l">>, <<"h","o","s","p","i","t","a","l">>,
    <<"c","l","i","n","i","c">>, <<"b","u","t","c","h","e","r">>,
    <<"m","e","a","t"," ","m","a","r","k","e","t">>, <<"t","u","x","e","d","o">>,
    <<"f","o","r","m","a","l"," ","w","e","a","r">>, <<"p","a","i","n","t","b","a","l","l">>
  }

\* foursquare.ts:334-336
foodRelatedKeywords ==
  {
    <<"f","o","o","d">>, <<"f","a","r","m","e","r","s">>,
    <<"r","e","s","t","a","u","r","a","n","t">>, <<"e","a","t","e","r","y">>,
    <<"d","i","n","i","n","g">>, <<"k","i","t","c","h","e","n">>
  }

\* foursquare.ts:343-349; the accented spelling of cafe is left out, no modelled name has it
drinkKeywords ==
  {
    <<"b","a","r">>, <<"p","u","b">>, <<"b","r","e","w","e","r","y">>, <<"w","i","n","e">>,
    <<"c","o","c","k","t","a","i","l">>, <<"n","i","g","h","t","c","l","u","b">>,
    <<"c","o","f","f","e","e">>, <<"c","a","f","e">>
  }

\* foursquare.ts:352-368
exploreKeywords ==
  {
    <<"m","u","s","e","u","m">>, <<"m","o","n","u","m","e","n","t">>,
    <<"l","a","n","d","m","a","r","k">>, <<"h","i","s","t","o","r","i","c">>,
    <<"g","a","l","l","e","r","y">>, <<"p","a","r","k">>, <<"g","a","r","d","e","n">>,
    <<"z","o","o">>, <<"s","c","e","n","i","c">>, <<"t","r","a","m","p","o","l","i","n","e">>,
    <<"a","r","c","h","e","r","y">>, <<"a","x","e"," ","t","h","r","o","w","i","n","g">>,
    <<"b","o","w","l","i","n","g">>, <<"a","r","c","a","d","e">>,
    <<"e","s","c","a","p","e"," ","r","o","o","m">>, <<"l","a","s","e","r"," ","t","a","g">>,
    <<"g","o"," ","k","a","r","t">>, <<"c","l","i","m","b","i","n","g">>, <<"g","o","l","f">>,
    <<"m","i","n","i"," ","g","o","l","f">>, <<"p","u","t","t">>,
    <<"d","r","i","v","i","n","g"," ","r","a","n","g","e">>,
    <<"s","i","m","u","l","a","t","o","r">>, <<"t","h","e","a","t","e","r">>,
    <<"t","h","e","a","t","r","e">>, <<"c","i","n","e","m","a">>, <<"s","k","a","t","i","n","g">>,
    <<"s","p","a">>, <<"p","o","o","l"," ","h","a","l","l">>, <<"b","i","l","l","i","a","r","d">>,
    <<"p","o","o","l"," ","t","a","b","l","e">>, <<"g","a","m","e"," ","r","o","o","m">>,
    <<"g","a","m","i","n","g">>, <<"r","e","c","r","e","a","t","i","o","n">>,
    <<"f","u","n"," ","c","e","n","t","e","r">>, <<"h","i","k","i","n","g">>,
    <<"t","r","a","i","l">>, <<"i","n","t","e","r","n","e","t"," ","c","a","f","e">>,
    <<"c","y","b","e","r"," ","c","a","f","e">>, <<"v","r">>,
    <<"v","i","r","t","u","a","l"," ","r","e","a","l","i","t","y">>,
    <<"p","i","n","g"," ","p","o","n","g">>, <<"t","a","b","l","e"," ","t","e","n","n","i","s">>,
    <<"b","a","d","m","i","n","t","o","n">>, <<"p","a","i","n","t","b","a","l","l">>,
    <<"r","o","c","k"," ","w","a","l","l">>, <<"b","o","u","l","d","e","r","i","n","g">>
  }

\* foursquare.ts:899-901 (getNearbyPlaces)
foodTypeKeywords ==
  {
    <<"r","e","s","t","a","u","r","a","n","t">>, <<"c","a","f","e">>, <<"b","a","k","e","r","y">>,
    <<"m","e","a","l">>, <<"f","o","o","d">>
  }

\* foursquare.ts:903-904
drinkTypeKeywords ==
  {
    <<"b","a","r">>, <<"n","i","g","h","t","_","c","l","u","b">>,
    <<"l","i","q","u","o","r","_","s","t","o","r","e">>
  }

\* foursquare.ts:906-908, tourist_attraction is handled in IsSightType
sightTypeKeywords ==
  {
    <<"m","u","s","e","u","m">>, <<"a","r","t","_","g","a","l","l","e","r","y">>,
    <<"l","a","n","d","m","a","r","k">>,
    <<"p","l","a","c","e","_","o","f","_","w","o","r","s","h","i","p">>, <<"p","a","r","k">>
  }

\* foursquare.ts:911-914
doTypeKeywords ==
  {
    <<"a","m","u","s","e","m","e","n","t">>, <<"a","q","u","a","r","i","u","m">>,
    <<"b","o","w","l","i","n","g">>, <<"c","a","s","i","n","o">>, <<"m","o","v","i","e">>,
    <<"s","p","a">>, <<"g","y","m">>, <<"s","h","o","p","p","i","n","g">>, <<"s","t","o","r","e">>
  }

\* foursquare.ts:22-90, CATEGORY_MAPPING[EAT]
CATEGORY_MAPPING_EAT ==
  { "4d4b7105d754a06374d81259", "4bf58dd8d48988d1c4941735", "4bf58dd8d48988d16c941735",
    "4bf58dd8d48988d1ca941735", "4bf58dd8d48988d110941735", "4bf58dd8d48988d16e941735",
    "4bf58dd8d48988d16a941735", "4bf58dd8d48988d143941735" }

\* foursquare.ts:22-90, CATEGORY_MAPPING[DRINK]
CATEGORY_MAPPING_DRINK ==
  { "4d4b7105d754a06376d81259", "4bf58dd8d48988d116941735", "4bf58dd8d48988d11b941735",
    "4bf58dd8d48988d117941735", "4bf58dd8d48988d11e941735", "4bf58dd8d48988d119941735",
    "4bf58dd8d48988d1e0931735", "4bf58dd8d48988d155941735" }

\* foursquare.ts:22-90, CATEGORY_MAPPING[EXPLORE]
CATEGORY_MAPPING_EXPLORE ==
  { "4bf58dd8d48988d181941735", "4bf58dd8d48988d18f941735", "4bf58dd8d48988d190941735",
    "4bf58dd8d48988d191941735", "4bf58dd8d48988d1e2931735", "4deefb944765f83613cdba6e",
    "4bf58dd8d48988d12d941735", "4bf58dd8d48988d163941735", "4bf58dd8d48988d165941735",
    "4bf58dd8d48988d17b941735", "52e81612bcbc57f1066b7a22", "52e81612bcbc57f1066b7a14",
    "4d4b7104d754a06370d81259", "4bf58dd8d48988d17f941735", "4bf58dd8d48988d1ac941735",
    "4bf58dd8d48988d182941735", "4bf58dd8d48988d1e1931735", "4bf58dd8d48988d184941735",
    "52e81612bcbc57f1066b7a21", "52e81612bcbc57f1066b7a13", "4bf58dd8d48988d1e3931735",
    "58daa1558bbb0b01f18ec1b1", "52e81612bcbc57f1066b79eb", "4bf58dd8d48988d1e9931735",
    "4bf58dd8d48988d168941735", "4bf58dd8d48988d167941735", "5bae9231bedf3950379f89d4",
    "4bf58dd8d48988d1e4931735", "4bf58dd8d48988d1e5931735", "52e81612bcbc57f1066b7a2e",
    "56aa371be4b08b9a8d573541", "4bf58dd8d48988d15c941735", "4bf58dd8d48988d15d941735",
    "5032833091d4c4b30a586d60", "4bf58dd8d48988d159941735", "52e81612bcbc57f1066b7a0d",
    "4bf58dd8d48988d1f0931735", "52e81612bcbc57f1066b7a26", "5744ccdfe4b0c0459246b4c3",
    "4bf58dd8d48988d1e8931735", "4f4528bc4b90abdf24c9de85", "52e81612bcbc57f1066b7a27" }

\* part_006:1181-1191
invalidCategoryIds ==
  { "4bf58dd8d48988d1fc941735", "4bf58dd8d48988d1fd941735", "4bf58dd8d48988d1fe941735",
    "52f2ab2ebcbc57f1066b8b42", "4bf58dd8d48988d10c951735", "4d954b0ea243a5684a65b473",
    "4bf58dd8d48988d1e2941735", "4bf58dd8d48988d10a951735", "4bf58dd8d48988d196941735" }

\* String.prototype.toLowerCase on one character (ASCII letters)
UpperToLower ==
  ("A" :> "a") @@ ("B" :> "b") @@ ("C" :> "c") @@ ("D" :> "d") @@ ("E" :> "e") @@ ("F" :> "f") @@
  ("G" :> "g") @@ ("H" :> "h") @@ ("I" :> "i") @@ ("J" :> "j") @@ ("K" :> "k") @@ ("L" :> "l")
  @@ ("M" :> "m") @@ ("N" :> "n") @@ ("O" :> "o") @@ ("P" :> "p") @@ ("Q" :> "q") @@ ("R" :>
  "r") @@ ("S" :> "s") @@ ("T" :> "t") @@ ("U" :> "u") @@ ("V" :> "v") @@ ("W" :> "w") @@ ("X"
  :> "x") @@ ("Y" :> "y") @@ ("Z" :> "z")

LowerChar(c) == IF c \in DOMAIN UpperToLower THEN UpperToLower[c] ELSE c

\* String.prototype.toLowerCase
ToLowerCase(s) == [i \in DOMAIN s |-> LowerChar(s[i])]

WhiteSpace == {" "}

RECURSIVE TrimStart(_)
TrimStart(s) == IF s # <<>> /\ Head(s) \in WhiteSpace THEN TrimStart(Tail(s)) ELSE s

RECURSIVE TrimEnd(_)
TrimEnd(s) ==
  IF s # <<>> /\ s[Len(s)] \in WhiteSpace THEN TrimEnd(SubSeq(s, 1, Len(s) - 1)) ELSE s

\* String.prototype.trim
Trim(s) == TrimEnd(TrimStart(s))

\* String.prototype.includes
Includes(s, sub) ==
  \/ sub = <<>>
  \/ \E i \in 1..(Len(s) - Len(sub) + 1) :
        s[i] = sub[1] /\ SubSeq(s, i, i + Len(sub) - 1) = sub

\* name.toLowerCase().trim(), the deduplication key
NormalizeName(name) == Trim(ToLowerCase(name))

(***************************************************************************)
(* Grid cache (services/storage.ts)                                        *)
(***************************************************************************)

\* the eviction cap of saveGridCachedResults
MAX_GRID_ENTRIES == 100

\* the time to live of a grid entry, in hours
GRID_TTL_HOURS == 6

\* getGridKey without the category suffix: one key per cell
getGridKeyNoCategory(lat, lng, category) ==
  <<(lat + 5) \div 10, (lng + 5) \div 10, "ALL">>

\* getGridKey with precision 2: Math.round(x * 100) / 100 on a coordinate given
\* in 1/1000 degree is (x + 5) div 10 hundredths (Math.round rounds a half up);
\* the key string "lat,lng:category" is the triple of its parts.
getGridKey(lat, lng, category) ==
  LET gridLat     == (lat + 5) \div 10
      gridLng     == (lng + 5) \div 10
      categoryKey == IF Truthy(category) THEN category ELSE "ALL"
  IN  <<gridLat, gridLng, categoryKey>>

\* entry.category / entry.query of a parsed entry: a key JSON left out reads undefined
EntryField(entry, key) == IF key \in DOMAIN entry THEN entry[key] ELSE Undefined

\* JSON.stringify of one entry: a key whose value is undefined is left out
StringifyEntry(entry) ==
  [k \in { f \in DOMAIN entry : f \notin {"category", "query"} \/ entry[f] # Undefined }
     |-> entry[k]]

\* JSON.stringify of the cache object, keys in insertion order
StringifyCache(cache) == [i \in DOMAIN cache |-> StringifyEntry(cache[i])]

\* the stored blob after AsyncStorage.setItem(GRID_CACHE_KEY, JSON.stringify(cache))
SetItem(cache) == [present |-> TRUE, cache |-> StringifyCache(cache)]

\* the stored blob before the first write (AsyncStorage.getItem returns null)
NoItem == [present |-> FALSE, cache |-> <<>>]

\* a stored string that is not JSON; what it would have held is lost
CorruptItem == [present |-> TRUE, corrupt |-> TRUE, cache |-> <<>>]

\* JSON.parse(json) throws a SyntaxError
ParseThrows(item) == item.present /\ "corrupt" \in DOMAIN item

\* cache[gridKey]: the position of the key in the object, 0 when it has no such key
KeyIndex(cache, gridKey) ==
  IF \E i \in DOMAIN cache : cache[i].gridKey = gridKey
  THEN CHOOSE i \in DOMAIN cache : cache[i].gridKey = gridKey
  ELSE 0

\* cache[gridKey] = entry: an existing key keeps its place, a new key goes last
PutEntry(cache, entry) ==
  LET i == KeyIndex(cache, entry.gridKey)
  IN  IF i = 0 THEN Append(cache, entry) ELSE [cache EXCEPT ![i] = entry]

\* delete cache[gridKey]
DeleteKey(cache, gridKey) ==
  LET Keep(e) == e.gridKey # gridKey IN SelectSeq(cache, Keep)

RECURSIVE SortBySearchCountDesc(_)
\* entries.sort((a, b) => b.searchCount - a.searchCount): Array.prototype.sort is
\* stable, so entries of equal searchCount keep their relative order
SortBySearchCountDesc(entries) ==
  IF entries = <<>> THEN <<>>
  ELSE LET top == CHOOSE n \in { entries[i].searchCount : i \in DOMAIN entries } :
                    \A i \in DOMAIN entries : entries[i].searchCount <= n
           IsTop(e) == e.searchCount = top
           Below(e) == e.searchCount < top
       IN  SelectSeq(entries, IsTop) \o SortBySearchCountDesc(SelectSeq(entries, Below))

\* an eviction that drops the most searched entry instead of the least searched
EvictMostSearched(cache) ==
  IF Len(cache) > MAX_GRID_ENTRIES
  THEN SubSeq(SortBySearchCountDesc(cache), 2, Len(cache))
  ELSE cache

\* the eviction step of saveGridCachedResults
EvictToCap(cache) ==
  IF Len(cache) > MAX_GRID_ENTRIES
  THEN SubSeq(SortBySearchCountDesc(cache), 1, MAX_GRID_ENTRIES)
  ELSE cache

\* saveGridCachedResults: the blob it leaves in storage
saveGridCachedResults(store, clock, lat, lng, places, category, query) ==
  LET gridKey  == getGridKey(lat, lng, category)
      cache    == IF store.present THEN store.cache ELSE <<>>
      i        == KeyIndex(cache, gridKey)
      entry    == [gridKey     |-> gridKey,
                   places      |-> places,
                   timestamp   |-> clock,
                   searchCount |-> IF i # 0 /\ cache[i].searchCount # 0
                                   THEN cache[i].searchCount + 1 ELSE 1,
                   category    |-> category,
                   query       |-> query]
  IN  IF ParseThrows(store) THEN store  \* caught at line 404, nothing is written
      ELSE SetItem(EvictToCap(PutEntry(cache, entry)))

\* the age test with the 24 hours of the place-details cache
GridEntryExpiredAfterDay(entry, clock) == clock - entry.timestamp > 24

\* the age test of getGridCachedResults: ageInHours > 6
GridEntryExpired(entry, clock) == clock - entry.timestamp > GRID_TTL_HOURS

\* the category test of getGridCachedResults (lines 328-337): TRUE is a miss
GridCategoryMiss(entry, category) ==
  Truthy(category)
    /\ (~Truthy(EntryField(entry, "category")) \/ EntryField(entry, "category") # category)

\* a query test that never misses
GridQueryMissNever(entry, query) == FALSE

\* the query test of getGridCachedResults (lines 341-344): TRUE is a miss
GridQueryMiss(entry, query) ==
  Truthy(query) /\ Truthy(EntryField(entry, "query")) /\ EntryField(entry, "query") # query

Miss(store) == [store |-> store, hit |-> FALSE, places |-> <<>>]

\* a hit that counts the search and keeps the time the entry was stored at
RefreshEntryKeepsTime(entry, clock) == [entry EXCEPT !.searchCount = @ + 1]

\* the entry a hit writes back (lines 348-349): entry.searchCount++ and
\* entry.timestamp = Date.now()
RefreshEntry(entry, clock) == [entry EXCEPT !.searchCount = @ + 1, !.timestamp = clock]

\* getGridCachedResults: its result (null is hit = FALSE) and the blob it leaves
getGridCachedResults(store, clock, lat, lng, category, query) ==
  LET gridKey == getGridKey(lat, lng, category)
      cache   == store.cache
      i       == KeyIndex(cache, gridKey)
  IN  IF ~store.present THEN Miss(store)
      ELSE IF ParseThrows(store) THEN Miss(store)  \* caught at line 355
      ELSE IF i = 0 THEN Miss(store)
      ELSE IF GridEntryExpired(cache[i], clock)
           THEN Miss(SetItem(DeleteKey(cache, gridKey)))
      ELSE IF GridCategoryMiss(cache[i], category) THEN Miss(store)
      ELSE IF GridQueryMiss(cache[i], query) THEN Miss(store)
      ELSE LET entry == RefreshEntry(cache[i], clock)
           IN  [store  |-> SetItem(PutEntry(cache, entry)),
                hit    |-> TRUE,
                places |-> entry.places]

(***************************************************************************)
(* Shared pieces of the aggregation pipeline (services/gemini.ts)          *)
(***************************************************************************)

\* Array.prototype.sort(compareFn) as a stable insertion sort: x goes right after
\* the last element that compareFn does not order after it.  For a consistent
\* compareFn every stable sort gives this order.
InsertSorted(sorted, x, Cmp(_, _)) ==
  LET stay == { j \in DOMAIN sorted : Cmp(sorted[j], x) <= 0 }
      at   == IF stay = {} THEN 0 ELSE CHOOSE j \in stay : \A k \in stay : k <= j
  IN  SubSeq(sorted, 1, at) \o <<x>> \o SubSeq(sorted, at + 1, Len(sorted))

ArraySort(s, Cmp(_, _)) ==
  LET RECURSIVE SortFrom(_, _)
      SortFrom(sorted, rest) ==
        IF rest = <<>> THEN sorted
        ELSE SortFrom(InsertSorted(sorted, Head(rest), Cmp), Tail(rest))
  IN  SortFrom(<<>>, s)

\* Array.prototype.slice(0, n)
Slice(s, n) == SubSeq(s, 1, IF Len(s) < n THEN Len(s) ELSE n)

\* Array.prototype.includes on a sequence
Contains(s, x) == \E i \in DOMAIN s : s[i] = x

\* Math.log10(n) for the arguments the modelled providers report: n a power of ten
Log10(n) == CHOOSE k \in 0..9 : 10^k = n

\* isChainRestaurant
isChainRestaurant(placeName) ==
  LET normalized == Trim(ToLowerCase(placeName))
  IN  \E chain \in CHAIN_BLOCKLIST : Includes(normalized, chain)

\* excludePlaceNames.some(excluded => excluded.toLowerCase().trim() === name)
IsExcluded(excludePlaceNames, normalizedName) ==
  \E i \in DOMAIN excludePlaceNames :
     Trim(ToLowerCase(excludePlaceNames[i])) = normalizedName

\* business_status === 'CLOSED_PERMANENTLY' || business_status === 'CLOSED_TEMPORARILY'
IsClosedStatus(status) == status \in {"CLOSED_PERMANENTLY", "CLOSED_TEMPORARILY"}

\* a place whose coordinate was not resolved (details.geometry is undefined)
NoDistance == 0 - 1

(***************************************************************************)
(* Foursquare-primary run: getRecommendationsWithFoursquare                *)
(***************************************************************************)

MAX_ATTEMPTS_FSQ == 3
MIN_PLACES_DEFAULT == 8
MIN_PLACES_EXPLORE == 4
\* filteredPlaces.slice(0, 20)
FSQ_CONVERT_LIMIT == 20
\* finalPlaces.slice(0, 18), mergedPlaces.slice(0, 18)
FSQ_RESULT_CAP == 18

\* categories.map(...).filter(cat => cat !== null): the PlaceCategory filters
CategoryFilters(categories) ==
  LET Known(c) == c \in {"EAT", "DRINK", "EXPLORE", "SIGHT", "DO"}
      known    == SelectSeq(categories, Known)
  IN  [i \in DOMAIN known |-> IF known[i] \in {"EAT", "DRINK"} THEN known[i] ELSE "EXPLORE"]

\* MIN_PLACES of the Foursquare run
MinPlacesFsq(categoryFilters) ==
  IF Contains(categoryFilters, "EXPLORE") THEN MIN_PLACES_EXPLORE ELSE MIN_PLACES_DEFAULT

\* place.categories?.[0]?.name?.toLowerCase() || ''
PrimaryCategoryName(fsqPlace) ==
  IF fsqPlace.categories = <<>> THEN <<>> ELSE ToLowerCase(fsqPlace.categories[1].name)

\* the predicate of hospitalityPlaces = fsqPlaces.filter(...)
IsHospitalityPlace(fsqPlace) ==
  LET name            == Trim(ToLowerCase(fsqPlace.name))
      categoryIds     == { fsqPlace.categories[i].fsq_category_id :
                             i \in DOMAIN fsqPlace.categories }
      primaryCategory == PrimaryCategoryName(fsqPlace)
      isFoodMarket    == Includes(primaryCategory, <<"f","o","o","d">>)
                           \/ Includes(primaryCategory, <<"f","a","r","m","e","r","s">>)
      isNonHospitality == \E cat \in nonHospitalityCategories : Includes(primaryCategory, cat)
  IN  /\ ~ \E keyword \in invalidKeywordsFoursquare : Includes(name, keyword)
      /\ categoryIds \cap invalidCategoryIds = {}
      /\ ~ (isNonHospitality /\ ~isFoodMarket)

\* twice the popularity score: (rating / 2) * log10(total_ratings + 10), the rating
\* in tenths on Foursquare's 0-10 scale, 0 when the place has none
PopularityFsq(fsqPlace) == fsqPlace.rating * Log10(fsqPlace.total_ratings + 10)

\* a compare function that puts the least popular first
CompareFsqAscending(a, b) == PopularityFsq(a) - PopularityFsq(b)

\* (a, b) => popularityB - popularityA
CompareFsq(a, b) == PopularityFsq(b) - PopularityFsq(a)

\* the predicate of filteredPlaces = sortedPlaces.filter(...)
NotChainNotShown(fsqPlace, excludePlaceNames) ==
  /\ ~isChainRestaurant(fsqPlace.name)
  /\ ~IsExcluded(excludePlaceNames, Trim(ToLowerCase(fsqPlace.name)))

\* mapFoursquareCategory
mapFoursquareCategory(fsqCategories) ==
  IF fsqCategories = <<>> THEN "UNKNOWN"
  ELSE LET categoryId    == fsqCategories[1].fsq_category_id
           categoryName  == ToLowerCase(fsqCategories[1].name)
           Has(kw)       == Includes(categoryName, kw)
           isFoodRelated == \E kw \in foodRelatedKeywords : Has(kw)
       IN  IF categoryId \in CATEGORY_MAPPING_EAT THEN "EAT"
           ELSE IF categoryId \in CATEGORY_MAPPING_DRINK THEN "DRINK"
           ELSE IF categoryId \in CATEGORY_MAPPING_EXPLORE THEN "EXPLORE"
           ELSE IF ~isFoodRelated /\ \E kw \in nonHospitalityKeywords : Has(kw)
                THEN "UNKNOWN"
           ELSE IF \E kw \in drinkKeywords : Has(kw) THEN "DRINK"
           ELSE IF \E kw \in exploreKeywords : Has(kw) THEN "EXPLORE"
           ELSE IF isFoodRelated THEN "EAT"
           ELSE "UNKNOWN"

\* formatFoursquareRating: (rating / 2).toFixed(1) as tenths of a star, 0 for 'New';
\* the modelled places have even ratings, so no rounding takes place
formatFoursquareRating(rating) == rating \div 2

\* the Place built from a Foursquare place (lines 1296-1318).  business_status and
\* distance are not fields of Place: they carry what the place's provider record
\* says, for the statements about closed and distant places.
FsqToPlace(fsqPlace) ==
  [id              |-> fsqPlace.fsq_place_id,
   name            |-> fsqPlace.name,
   category        |-> mapFoursquareCategory(fsqPlace.categories),
   rating          |-> formatFoursquareRating(fsqPlace.rating),
   reviewCount     |-> fsqPlace.total_ratings,
   source          |-> "foursquare",
   business_status |-> fsqPlace.business_status,
   distance        |-> fsqPlace.distance]

\* places = filteredPlaces.slice(0, 20).map(...).filter(place => place !== null)
FsqPlacesOf(fsqPlaces, excludePlaceNames) ==
  LET Hosp(p)        == IsHospitalityPlace(p)
      sortedPlaces   == ArraySort(SelectSeq(fsqPlaces, Hosp), CompareFsq)
      Keep(p)        == NotChainNotShown(p, excludePlaceNames)
      filteredPlaces == SelectSeq(sortedPlaces, Keep)
      top            == Slice(filteredPlaces, FSQ_CONVERT_LIMIT)
      mapped         == [i \in DOMAIN top |-> FsqToPlace(top[i])]
      Known(pl)      == pl.category # "UNKNOWN"
  IN  SelectSeq(mapped, Known)

\* a category filter that lets every place through
FilterByCategoryAll(places, categoryFilters) == places

\* finalPlaces = places.filter(p => categoryFilters.includes(p.category))
FilterByCategory(places, categoryFilters) ==
  LET Match(p) == Contains(categoryFilters, p.category)
  IN  SelectSeq(places, Match)

\* the Place built from an OSM element (lines 1363-1375)
OsmToPlace(osm) ==
  [id              |-> "osm-" \o osm.id,
   name            |-> osm.name,
   category        |-> "EXPLORE",
   rating          |-> 0,
   reviewCount     |-> 0,
   source          |-> "osm",
   business_status |-> osm.business_status,
   distance        |-> osm.distance]

\* the merge loop (lines 1378-1386)
MergeOsm(finalPlaces, osmFormattedPlaces) ==
  LET IsDuplicate(mergedPlaces, osmPlace) ==
        \E i \in DOMAIN mergedPlaces :
           ToLowerCase(mergedPlaces[i].name) = ToLowerCase(osmPlace.name)
      RECURSIVE MergeFrom(_, _)
      MergeFrom(mergedPlaces, rest) ==
        IF rest = <<>> THEN mergedPlaces
        ELSE IF IsDuplicate(mergedPlaces, Head(rest))
             THEN MergeFrom(mergedPlaces, Tail(rest))
             ELSE MergeFrom(Append(mergedPlaces, Head(rest)), Tail(rest))
  IN  MergeFrom(finalPlaces, osmFormattedPlaces)

\* One pass of the while loop of getRecommendationsWithFoursquare, attempts already
\* incremented.  fsqPlaces is what searchFoursquarePlaces returned ([] also when the
\* request failed), osmPlaces what searchOSMActivities returns if it is called ([]
\* also when its request failed).  exit says how the pass ends:
\* "continue" (radius expanded), "google" (hand over to getRecommendations) or
\* "return"; accepted is the list the pass had accepted when it ended, passing the
\* number of Foursquare places that passed every filter but the category filter.
FsqPass(fsqPlaces, osmPlaces, attemptsNow, categories, excludePlaceNames) ==
  LET categoryFilters == CategoryFilters(categories)
      MIN_PLACES      == MinPlacesFsq(categoryFilters)
      places          == FsqPlacesOf(fsqPlaces, excludePlaceNames)
      finalPlaces     == IF categoryFilters # <<>>
                         THEN FilterByCategory(places, categoryFilters) ELSE places
      osmFormatted    == [i \in DOMAIN osmPlaces |-> OsmToPlace(osmPlaces[i])]
      mergedPlaces    == MergeOsm(finalPlaces, osmFormatted)
      more            == attemptsNow < MAX_ATTEMPTS_FSQ
      Out(exit, result, accepted, osm) ==
        [exit |-> exit, places |-> result, accepted |-> accepted, osmCalled |-> osm,
         passing |-> Len(places)]
  IN  IF fsqPlaces = <<>>
      THEN Out(IF more THEN "continue" ELSE "google", <<>>, <<>>, FALSE)
      ELSE IF Len(places) < MIN_PLACES
      THEN Out(IF more THEN "continue" ELSE "google", <<>>, finalPlaces, FALSE)
      ELSE IF categoryFilters # <<>> /\ Len(finalPlaces) < MIN_PLACES /\ more
      THEN Out("continue", <<>>, finalPlaces, FALSE)
      ELSE IF categoryFilters # <<>> /\ Len(finalPlaces) < MIN_PLACES
              /\ Contains(categoryFilters, "EXPLORE")
      THEN IF Len(mergedPlaces) >= MIN_PLACES
           THEN Out("return", Slice(mergedPlaces, FSQ_RESULT_CAP), mergedPlaces, TRUE)
           ELSE Out("return", mergedPlaces, mergedPlaces, TRUE)
      ELSE IF categoryFilters # <<>> /\ Len(finalPlaces) < MIN_PLACES
      THEN Out("return", finalPlaces, finalPlaces, FALSE)
      ELSE Out("return", Slice(finalPlaces, FSQ_RESULT_CAP), finalPlaces, FALSE)

(***************************************************************************)
(* Google run: getNearbyPlaces (services/places.ts) and getRecommendations *)
(***************************************************************************)

\* the module constant BYPASS_GEMINI is true: no discovery call is made and every
\* candidate of getRecommendations comes from getNearbyPlaces
MAX_ATTEMPTS_GOOGLE == 5
MIN_PLACES_GOOGLE == 8
\* sortedPlaces.slice(0, 8)
GOOGLE_RESULT_CAP == 8
\* rating >= 3.5 in getNearbyPlaces and minRating of a normal search, in tenths
MIN_RATING == 35
\* minRating of a refresh, in tenths
MIN_RATING_REFRESH == 30

\* detectedCategory of getNearbyPlaces, from the place's types
DetectedCategory(types) ==
  LET Some(Test(_)) == \E i \in DOMAIN types : Test(types[i])
      IsFood(t)  == \E kw \in foodTypeKeywords : Includes(t, kw)
      IsDrink(t) == \E kw \in drinkTypeKeywords : Includes(t, kw)
      IsSight(t) ==
        \/ \E kw \in sightTypeKeywords : Includes(t, kw)
        \/ /\ Includes(t, <<"t","o","u","r","i","s","t","_","a","t","t","r","a","c","t","i","o","n">>)
           /\ ~Includes(t, <<"c","a","f","e">>)
           /\ ~Includes(t, <<"r","e","s","t","a","u","r","a","n","t">>)
      IsDo(t)    == \E kw \in doTypeKeywords : Includes(t, kw)
  IN  IF Some(IsFood) THEN "EAT"
      ELSE IF Some(IsDrink) THEN "DRINK"
      ELSE IF Some(IsSight) THEN "SIGHT"
      ELSE IF Some(IsDo) THEN "DO"
      ELSE "EAT"

\* getNearbyPlaces: what it returns for the API's places (an empty list also when
\* the request failed after its retries)
getNearbyPlaces(apiPlaces, categories) ==
  LET placesWithCategories ==
        [i \in DOMAIN apiPlaces |->
           [place |-> apiPlaces[i], detectedCategory |-> DetectedCategory(apiPlaces[i].types)]]
      Keep(p) ==
        /\ ~IsClosedStatus(p.place.businessStatus)
        /\ p.place.rating >= MIN_RATING
        /\ (categories = <<>> \/ Contains(categories, p.detectedCategory))
  IN  SelectSeq(placesWithCategories, Keep)

\* (rating || 0) * Math.log10((userRatingCount || 0) + 10), the rating in tenths
PopularityNearby(p) == p.place.rating * Log10(p.place.userRatingCount + 10)

CompareNearby(a, b) == PopularityNearby(b) - PopularityNearby(a)

\* the category of a discovery built from a nearby place (lines 787-792)
DiscoveryCategory(detectedCategory) ==
  IF detectedCategory = "DRINK" THEN "DRINK"
  ELSE IF detectedCategory \in {"EXPLORE", "SIGHT", "DO"} THEN "EXPLORE"
  ELSE "EAT"

\* nearbyPlaces.forEach(...) (lines 759-803): the discoveries, starting from none
DiscoveriesOf(nearbyPlaces) ==
  LET Add(discoveries, p) ==
        LET placeName      == p.place.displayName
            normalizedName == Trim(ToLowerCase(placeName))
            existingNames  == { Trim(ToLowerCase(discoveries[i].name)) :
                                  i \in DOMAIN discoveries }
        IN  IF IsClosedStatus(p.place.businessStatus) THEN discoveries
            ELSE IF \E keyword \in invalidKeywordsGoogle : Includes(normalizedName, keyword)
                 THEN discoveries
            ELSE IF isChainRestaurant(placeName) THEN discoveries
            ELSE IF normalizedName \notin existingNames /\ placeName # <<>>
                 THEN Append(discoveries,
                             [name     |-> placeName,
                              category |-> DiscoveryCategory(p.detectedCategory),
                              placeId  |-> p.place.id])
            ELSE discoveries
      RECURSIVE AddFrom(_, _)
      AddFrom(discoveries, rest) ==
        IF rest = <<>> THEN discoveries
        ELSE AddFrom(Add(discoveries, Head(rest)), Tail(rest))
  IN  AddFrom(<<>>, nearbyPlaces)

\* distance > maxDistance with maxDistance = currentRadius * 1.5
TooFar(distance, currentRadius) == 2 * distance > 3 * currentRadius

\* the tests of the Phase 3B loop (lines 878-918) that skip a candidate
SkipDetails(details, seenPlaceNames, excludePlaceNames, currentRadius) ==
  LET normalizedName == Trim(ToLowerCase(details.name))
  IN  \/ ~details.found
      \/ IsClosedStatus(details.business_status)
      \/ normalizedName \in seenPlaceNames
      \/ isChainRestaurant(details.name)
      \/ IsExcluded(excludePlaceNames, normalizedName)
      \/ (details.distance # NoDistance /\ TooFar(details.distance, currentRadius))

\* the Place built from Google details (lines 944-958); reviewCount is the number
\* written into, and read back from, the reason text; business_status and distance
\* are carried for the statements about closed and distant places
DetailsToPlace(details, discovery, i) ==
  [id              |-> "place-" \o ToString(i - 1),
   name            |-> details.name,
   category        |-> discovery.category,
   rating          |-> details.rating,
   reviewCount     |-> details.user_ratings_total,
   source          |-> "google",
   business_status |-> details.business_status,
   distance        |-> details.distance]

\* Phase 3B: the places built from the details, in order
PlacesOfDetails(placeDetails, discoveries, excludePlaceNames, currentRadius) ==
  LET RECURSIVE BuildFrom(_, _)
      BuildFrom(places, i) ==
        IF i > Len(placeDetails) THEN places
        ELSE LET seenPlaceNames == { Trim(ToLowerCase(places[j].name)) : j \in DOMAIN places }
             IN  IF SkipDetails(placeDetails[i], seenPlaceNames, excludePlaceNames,
                                currentRadius)
                 THEN BuildFrom(places, i + 1)
                 ELSE BuildFrom(Append(places,
                                       DetailsToPlace(placeDetails[i], discoveries[i], i)),
                                i + 1)
  IN  BuildFrom(<<>>, 1)

\* rating >= minRating || rating === 0
PassesRating(place, isRefresh) ==
  place.rating >= (IF isRefresh THEN MIN_RATING_REFRESH ELSE MIN_RATING) \/ place.rating = 0

\* rating * Math.log10(reviews + 10), the rating in tenths
PopularityPlace(place) == place.rating * Log10(place.reviewCount + 10)

\* the compare function of sortedPlaces (lines 1003-1033)
ComparePlaces(a, b, categories) ==
  LET popularityA == PopularityPlace(a)
      popularityB == PopularityPlace(b)
      larger      == IF popularityA > popularityB THEN popularityA ELSE popularityB
      difference  == IF popularityA > popularityB THEN popularityA - popularityB
                     ELSE popularityB - popularityA
  IN  IF categories # <<>> /\ ~Contains(categories, "EAT")
         /\ larger > 0 /\ 100 * difference < 15 * larger
      THEN 0
      ELSE popularityB - popularityA

\* Phase 4: sortedPlaces of one attempt, the places that passed every filter
SortedPlacesGoogle(places, categories, isRefresh) ==
  LET Rated(p)  == PassesRating(p, isRefresh)
      Match(p)  == Contains(categories, p.category)
      rated     == SelectSeq(places, Rated)
      filtered  == IF categories # <<>> THEN SelectSeq(rated, Match) ELSE rated
      Cmp(a, b) == ComparePlaces(a, b, categories)
  IN  ArraySort(filtered, Cmp)

\* Phase 5: finalPlaces = sortedPlaces.slice(0, 8)
FinalPlacesGoogle(places, categories, isRefresh) ==
  Slice(SortedPlacesGoogle(places, categories, isRefresh), GOOGLE_RESULT_CAP)

(***************************************************************************)
(* The older getRecommendations: Gemini discovery, validation by name      *)
(***************************************************************************)

\* places.slice(0, 12)
LEGACY_VALIDATE_LIMIT == 12
\* validatedPlaces.length < 6
LEGACY_MIN_VALIDATED == 6
\* needed = 8 - validatedPlaces.length, placesToValidate.slice(0, 8)
LEGACY_FILL_TARGET == 8
\* finalPlaces.length < 3 && placesToValidate.length >= 3
LEGACY_MIN_FINAL == 3

\* the category of a line, from its category text in capitals
LegacyCategory(categoryRaw) ==
  IF Includes(categoryRaw, <<"E","A","T">>) THEN "EAT"
  ELSE IF Includes(categoryRaw, <<"D","R","I","N","K">>) THEN "DRINK"
  ELSE IF Includes(categoryRaw, <<"D","O">>) THEN "DO"
  ELSE IF Includes(categoryRaw, <<"S","I","G","H","T">>) THEN "SIGHT"
  ELSE "DO"

\* places.push({ id: `place-${timestamp}-${index}`, ... }); business_status and
\* distance are not fields of Place: they carry what Google resolves for the name
LegacyToPlace(line, index) ==
  [id              |-> "place-" \o ToString(index),
   name            |-> Trim(line.name),
   category        |-> LegacyCategory(line.categoryRaw),
   rating          |-> line.rating,
   reviewCount     |-> 0,
   source          |-> "gemini",
   business_status |-> line.business_status,
   distance        |-> line.distance]

\* result.distance > MAX_ACCEPTABLE_DISTANCE, MAX_ACCEPTABLE_DISTANCE = radiusKm * 1.5
LegacyTooFar(line, radiusKm) ==
  line.distance # NoDistance /\ 2 * line.distance > 3 * radiusKm

\* result.distance > radiusKm
LegacyBeyondRadius(line, radiusKm) ==
  line.distance # NoDistance /\ line.distance > radiusKm

\* (a, b) => a.distance - b.distance
CompareDistance(a, b) == a.line.distance - b.line.distance

\* finalPlaces of the older getRecommendations for the lines of a Gemini answer:
\* the City line comes first, so the line of index i is the i-th place
LegacyFinalPlaces(lines, radiusKm) ==
  LET indexed          == [i \in DOMAIN lines |-> [line |-> lines[i], index |-> i]]
      placesToValidate == Slice(indexed, LEGACY_VALIDATE_LIMIT)
      Validated(e)     == /\ e.line.found
                          /\ ~LegacyTooFar(e.line, radiusKm)
                          /\ ~LegacyBeyondRadius(e.line, radiusKm)
      Beyond(e)        == /\ e.line.found
                          /\ ~LegacyTooFar(e.line, radiusKm)
                          /\ LegacyBeyondRadius(e.line, radiusKm)
      validatedPlaces  == SelectSeq(placesToValidate, Validated)
      beyondRadius     == SelectSeq(placesToValidate, Beyond)
      needed           == LEGACY_FILL_TARGET - Len(validatedPlaces)
      filled           == IF Len(validatedPlaces) < LEGACY_MIN_VALIDATED /\ beyondRadius # <<>>
                          THEN validatedPlaces
                                 \o Slice(ArraySort(beyondRadius, CompareDistance), needed)
                          ELSE validatedPlaces
      finalPlaces      == IF Len(filled) < LEGACY_MIN_FINAL
                             /\ Len(placesToValidate) >= LEGACY_MIN_FINAL
                          THEN Slice(placesToValidate, LEGACY_FILL_TARGET)
                          ELSE filled
  IN  [i \in DOMAIN finalPlaces |-> LegacyToPlace(finalPlaces[i].line, finalPlaces[i].index)]

\* the place the catch block of the older getRecommendations returns
LegacyPlaceholder ==
  [id              |-> "err-1",
   name            |-> <<"L","o","c","a","l"," ","A","d","v","e","n","t","u","r","e">>,
   category        |-> "DO",
   rating          |-> 50,
   reviewCount     |-> 0,
   source          |-> "placeholder",
   business_status |-> "OPERATIONAL",
   distance        |-> NoDistance]

(***************************************************************************)
(* What the providers can report around the search centre                  *)
(***************************************************************************)

\* Foursquare places (FoursquarePlace): rating in tenths on the 0-10 scale, 0 when
\* the place has none; total_ratings is stats.total_ratings; distance in 1/100 km.
\* business_status is not a Foursquare field: it is what Google reports for the
\* place when its card later loads photos.
FsqPlace(id, name, categories, rating, total_ratings, distance, business_status) ==
  [fsq_place_id |-> id, name |-> name, categories |-> categories, rating |-> rating,
   total_ratings |-> total_ratings, distance |-> distance,
   business_status |-> business_status]

FsqCategory(id, name) == [fsq_category_id |-> id, name |-> name]

FsqPool ==
  ("f01" :> FsqPlace("f01", <<"G","i","u","l","i","a">>,
            <<FsqCategory("4bf58dd8d48988d110941735", <<"I","t","a","l","i","a","n"," ","R","e","s","t","a","u","r","a","n","t">>)>>,
            94, 990, 80, "OPERATIONAL")) @@
  ("f02" :> FsqPlace("f02", <<"O","l","e","a","n","a">>,
            <<FsqCategory("4bf58dd8d48988d1c4941735", <<"R","e","s","t","a","u","r","a","n","t">>)>>,
            92, 990, 120, "OPERATIONAL")) @@
  ("f03" :> FsqPlace("f03", <<"S","a","r","m","a">>,
            <<FsqCategory("4bf58dd8d48988d1c4941735", <<"R","e","s","t","a","u","r","a","n","t">>)>>,
            90, 990, 200, "OPERATIONAL")) @@
  ("f04" :> FsqPlace("f04", <<"P","a","m","m","y","'","s">>,
            <<FsqCategory("4bf58dd8d48988d110941735", <<"I","t","a","l","i","a","n"," ","R","e","s","t","a","u","r","a","n","t">>)>>,
            90, 90, 150, "OPERATIONAL")) @@
  ("f05" :> FsqPlace("f05", <<"C","e","l","e","s","t","e">>,
            <<FsqCategory("4bf58dd8d48988d1c4941735", <<"R","e","s","t","a","u","r","a","n","t">>)>>,
            88, 90, 210, "OPERATIONAL")) @@
  ("f06" :> FsqPlace("f06", <<"J","u","l","i","e","t">>,
            <<FsqCategory("4bf58dd8d48988d1c4941735", <<"R","e","s","t","a","u","r","a","n","t">>)>>,
            88, 90, 260, "OPERATIONAL")) @@
  ("f07" :> FsqPlace("f07", <<"M","o","o","n","a">>,
            <<FsqCategory("4bf58dd8d48988d1c4941735", <<"R","e","s","t","a","u","r","a","n","t">>)>>,
            86, 90, 100, "OPERATIONAL")) @@
  ("f08" :> FsqPlace("f08", <<"Y","u","m","e">>,
            <<FsqCategory("4bf58dd8d48988d1c4941735", <<"R","e","s","t","a","u","r","a","n","t">>)>>,
            84, 90, 300, "OPERATIONAL")) @@
  ("f09" :> FsqPlace("f09", <<"P","u","r","i","t","a","n">>,
            <<FsqCategory("4bf58dd8d48988d1c4941735", <<"R","e","s","t","a","u","r","a","n","t">>)>>,
            82, 90, 310, "OPERATIONAL")) @@
  ("f10" :> FsqPlace("f10", <<"g","i","u","l","i","a"," ">>,
            <<FsqCategory("4bf58dd8d48988d1ca941735", <<"P","i","z","z","a"," ","P","l","a","c","e">>)>>,
            80, 90, 90, "OPERATIONAL")) @@
  ("f11" :> FsqPlace("f11", <<"S","t","a","r","b","u","c","k","s"," ","C","o","f","f","e","e">>,
            <<FsqCategory("4bf58dd8d48988d1e0931735", <<"C","o","f","f","e","e"," ","S","h","o","p">>)>>,
            80, 990, 50, "OPERATIONAL")) @@
  ("f12" :> FsqPlace("f12", <<"L","a","m","p","l","i","g","h","t","e","r">>,
            <<FsqCategory("4bf58dd8d48988d155941735", <<"B","r","e","w","e","r","y">>)>>,
            90, 990, 140, "OPERATIONAL")) @@
  ("f13" :> FsqPlace("f13", <<"M","I","T"," ","M","u","s","e","u","m">>,
            <<FsqCategory("4bf58dd8d48988d181941735", <<"M","u","s","e","u","m">>)>>,
            90, 990, 160, "OPERATIONAL")) @@
  ("f14" :> FsqPlace("f14", <<"D","a","n","e","h","y"," ","P","a","r","k">>,
            <<FsqCategory("4bf58dd8d48988d163941735", <<"P","a","r","k">>)>>,
            88, 90, 280, "OPERATIONAL")) @@
  ("f15" :> FsqPlace("f15", <<"A","c","e"," ","H","a","r","d","w","a","r","e">>,
            <<FsqCategory("4bf58dd8d48988d112951735", <<"H","a","r","d","w","a","r","e"," ","S","t","o","r","e">>)>>,
            80, 90, 100, "OPERATIONAL")) @@
  ("f16" :> FsqPlace("f16", <<"C","o","r","n","e","r"," ","S","p","o","t">>,
            <<>>,
            80, 90, 100, "OPERATIONAL")) @@
  ("f17" :> FsqPlace("f17", <<"D","a","l","i">>,
            <<FsqCategory("4bf58dd8d48988d1c4941735", <<"R","e","s","t","a","u","r","a","n","t">>)>>,
            90, 990, 130, "CLOSED_PERMANENTLY")) @@
  ("f18" :> FsqPlace("f18", <<"F","a","r"," ","G","r","i","l","l">>,
            <<FsqCategory("4bf58dd8d48988d1c4941735", <<"R","e","s","t","a","u","r","a","n","t">>)>>,
            90, 990, 2000, "OPERATIONAL")) @@
  ("f19" :> FsqPlace("f19", <<"T","a","p","a","s">>,
            <<FsqCategory("4bf58dd8d48988d1db931735", <<"T","a","p","a","s"," ","R","e","s","t","a","u","r","a","n","t">>)>>,
            86, 90, 110, "OPERATIONAL")) @@
  ("f20" :> FsqPlace("f20", <<"N","o","t","a","r","y"," ","H","a","l","l">>,
            <<FsqCategory("52f2ab2ebcbc57f1066b8b56", <<"N","o","t","a","r","y">>)>>,
            0, 0, 100, "OPERATIONAL")) @@
  ("f21" :> FsqPlace("f21", <<"C","V","S"," ","P","h","a","r","m","a","c","y">>,
            <<FsqCategory("4bf58dd8d48988d10f951735", <<"P","h","a","r","m","a","c","y">>)>>,
            70, 90, 60, "OPERATIONAL"))

\* Google places as places:searchText reports them (getNearbyPlaces): displayName
\* is displayName.text, rating in tenths of a star
GooglePlace(id, displayName, types, rating, userRatingCount, businessStatus) ==
  [id |-> id, displayName |-> displayName, types |-> types, rating |-> rating,
   userRatingCount |-> userRatingCount, businessStatus |-> businessStatus]

GooglePool ==
  ("g01" :> GooglePlace("g01", <<"G","i","u","l","i","a">>,
            <<<<"i","t","a","l","i","a","n","_","r","e","s","t","a","u","r","a","n","t">>, <<"r","e","s","t","a","u","r","a","n","t">>>>,
            47, 990, "OPERATIONAL")) @@
  ("g02" :> GooglePlace("g02", <<"O","l","e","a","n","a">>,
            <<<<"r","e","s","t","a","u","r","a","n","t">>>>,
            46, 990, "OPERATIONAL")) @@
  ("g03" :> GooglePlace("g03", <<"S","a","r","m","a">>,
            <<<<"r","e","s","t","a","u","r","a","n","t">>>>,
            45, 990, "OPERATIONAL")) @@
  ("g04" :> GooglePlace("g04", <<"P","a","m","m","y","'","s">>,
            <<<<"r","e","s","t","a","u","r","a","n","t">>>>,
            45, 90, "OPERATIONAL")) @@
  ("g05" :> GooglePlace("g05", <<"C","e","l","e","s","t","e">>,
            <<<<"r","e","s","t","a","u","r","a","n","t">>>>,
            44, 90, "OPERATIONAL")) @@
  ("g06" :> GooglePlace("g06", <<"J","u","l","i","e","t">>,
            <<<<"c","a","f","e">>>>,
            44, 90, "OPERATIONAL")) @@
  ("g07" :> GooglePlace("g07", <<"M","o","o","n","a">>,
            <<<<"r","e","s","t","a","u","r","a","n","t">>>>,
            43, 90, "OPERATIONAL")) @@
  ("g08" :> GooglePlace("g08", <<"Y","u","m","e">>,
            <<<<"r","e","s","t","a","u","r","a","n","t">>>>,
            42, 90, "OPERATIONAL")) @@
  ("g09" :> GooglePlace("g09", <<"P","u","r","i","t","a","n">>,
            <<<<"r","e","s","t","a","u","r","a","n","t">>>>,
            41, 90, "OPERATIONAL")) @@
  ("g10" :> GooglePlace("g10", <<"G","I","U","L","I","A"," ">>,
            <<<<"r","e","s","t","a","u","r","a","n","t">>>>,
            40, 90, "OPERATIONAL")) @@
  ("g11" :> GooglePlace("g11", <<"G","i","u","l","i","a"," ","C","a","m","b","r","i","d","g","e">>,
            <<<<"r","e","s","t","a","u","r","a","n","t">>>>,
            40, 90, "OPERATIONAL")) @@
  ("g12" :> GooglePlace("g12", <<"D","a","l","i">>,
            <<<<"r","e","s","t","a","u","r","a","n","t">>>>,
            45, 990, "CLOSED_PERMANENTLY")) @@
  ("g13" :> GooglePlace("g13", <<"A","l","d","e","n">>,
            <<<<"r","e","s","t","a","u","r","a","n","t">>>>,
            45, 990, "OPERATIONAL")) @@
  ("g14" :> GooglePlace("g14", <<"F","a","r"," ","G","r","i","l","l">>,
            <<<<"r","e","s","t","a","u","r","a","n","t">>>>,
            45, 990, "OPERATIONAL")) @@
  ("g15" :> GooglePlace("g15", <<"K","F","C">>,
            <<<<"r","e","s","t","a","u","r","a","n","t">>>>,
            40, 990, "OPERATIONAL")) @@
  ("g16" :> GooglePlace("g16", <<"T","a","r","g","e","t"," ","C","a","f","e">>,
            <<<<"c","a","f","e">>>>,
            40, 90, "OPERATIONAL")) @@
  ("g17" :> GooglePlace("g17", <<"G","r","e","a","s","y"," ","S","p","o","o","n">>,
            <<<<"r","e","s","t","a","u","r","a","n","t">>>>,
            30, 90, "OPERATIONAL")) @@
  ("g18" :> GooglePlace("g18", <<"L","a","m","p","l","i","g","h","t","e","r">>,
            <<<<"b","a","r">>>>,
            46, 990, "OPERATIONAL")) @@
  ("g19" :> GooglePlace("g19", <<"M","I","T"," ","M","u","s","e","u","m">>,
            <<<<"m","u","s","e","u","m">>, <<"t","o","u","r","i","s","t","_","a","t","t","r","a","c","t","i","o","n">>>>,
            46, 990, "OPERATIONAL")) @@
  ("g20" :> GooglePlace("g20", <<"N","o","m","a","d"," ","C","a","r","t">>,
            <<<<"r","e","s","t","a","u","r","a","n","t">>>>,
            42, 90, "OPERATIONAL")) @@
  ("g21" :> GooglePlace("g21", <<"F","a","d","i","n","g"," ","S","t","a","r">>,
            <<<<"r","e","s","t","a","u","r","a","n","t">>>>,
            40, 990, "OPERATIONAL"))

\* what getPlaceDetailsByIdDirect resolves for a place id; distance is the Haversine
\* distance of geometry.location from the search centre in 1/100 km, NoDistance when
\* the details carry no geometry
GoogleDetails(name, rating, user_ratings_total, business_status, distance) ==
  [found |-> TRUE, name |-> name, rating |-> rating,
   user_ratings_total |-> user_ratings_total, business_status |-> business_status,
   distance |-> distance]

\* the null that getPlaceDetailsByIdDirect returns when the request failed
NoDetails ==
  [found |-> FALSE, name |-> <<>>, rating |-> 0, user_ratings_total |-> 0,
   business_status |-> "OPERATIONAL", distance |-> NoDistance]

GoogleDetailsPool ==
  ("g01" :> GoogleDetails(<<"G","i","u","l","i","a">>, 47, 990, "OPERATIONAL", 80)) @@
  ("g02" :> GoogleDetails(<<"O","l","e","a","n","a">>, 46, 990, "OPERATIONAL", 120)) @@
  ("g03" :> GoogleDetails(<<"S","a","r","m","a">>, 45, 990, "OPERATIONAL", 200)) @@
  ("g04" :> GoogleDetails(<<"P","a","m","m","y","'","s">>, 45, 90, "OPERATIONAL", 150)) @@
  ("g05" :> GoogleDetails(<<"C","e","l","e","s","t","e">>, 44, 90, "OPERATIONAL", 210)) @@
  ("g06" :> GoogleDetails(<<"J","u","l","i","e","t">>, 44, 90, "OPERATIONAL", 260)) @@
  ("g07" :> GoogleDetails(<<"M","o","o","n","a">>, 43, 90, "OPERATIONAL", 100)) @@
  ("g08" :> GoogleDetails(<<"Y","u","m","e">>, 42, 90, "OPERATIONAL", 300)) @@
  ("g09" :> GoogleDetails(<<"P","u","r","i","t","a","n">>, 41, 90, "OPERATIONAL", 310)) @@
  ("g10" :> GoogleDetails(<<"G","I","U","L","I","A"," ">>, 40, 90, "OPERATIONAL", 85)) @@
  ("g11" :> GoogleDetails(<<"g","i","u","l","i","a">>, 40, 90, "OPERATIONAL", 80)) @@
  ("g12" :> GoogleDetails(<<"D","a","l","i">>, 45, 990, "CLOSED_PERMANENTLY", 130)) @@
  ("g13" :> GoogleDetails(<<"A","l","d","e","n">>, 45, 990, "CLOSED_TEMPORARILY", 140)) @@
  ("g14" :> GoogleDetails(<<"F","a","r"," ","G","r","i","l","l">>, 45, 990, "OPERATIONAL", 500)) @@
  ("g15" :> GoogleDetails(<<"K","F","C">>, 40, 990, "OPERATIONAL", 70)) @@
  ("g16" :> GoogleDetails(<<"T","a","r","g","e","t"," ","C","a","f","e">>, 40, 90, "OPERATIONAL", 90)) @@
  ("g17" :> GoogleDetails(<<"G","r","e","a","s","y"," ","S","p","o","o","n">>, 30, 90, "OPERATIONAL", 90)) @@
  ("g18" :> GoogleDetails(<<"L","a","m","p","l","i","g","h","t","e","r">>, 46, 990, "OPERATIONAL", 140)) @@
  ("g19" :> GoogleDetails(<<"M","I","T"," ","M","u","s","e","u","m">>, 46, 990, "OPERATIONAL", 160)) @@
  ("g20" :> GoogleDetails(<<"N","o","m","a","d"," ","C","a","r","t">>, 42, 90, "OPERATIONAL", NoDistance)) @@
  ("g21" :> GoogleDetails(<<"F","a","d","i","n","g"," ","S","t","a","r">>, 32, 990, "OPERATIONAL", 110))

\* OpenStreetMap elements that searchOSMActivities can return (named, with a street);
\* name is tags.name; distance and business_status are not OSM fields: they carry
\* where the venue is and what Google reports for it
OsmElement(id, name, distance, business_status) ==
  [id |-> id, name |-> name, distance |-> distance, business_status |-> business_status]

OsmPool ==
  ("o1" :> OsmElement("1001", <<"B","o","d","a"," ","B","o","r","g">>, 250, "OPERATIONAL")) @@
  ("o2" :> OsmElement("1002", <<"m","i","t"," ","m","u","s","e","u","m">>, 160, "OPERATIONAL")) @@
  ("o3" :> OsmElement("1003", <<"M","I","T"," ","M","u","s","e","u","m"," ">>, 160, "OPERATIONAL")) @@
  ("o4" :> OsmElement("1004", <<"L","a","n","e","s"," ","&"," ","G","a","m","e","s">>, 300, "OPERATIONAL")) @@
  ("o5" :> OsmElement("1005", <<"S","t","a","r","b","u","c","k","s"," ","R","e","s","e","r","v","e">>, 200, "OPERATIONAL"))

\* Places as the Gemini answer of the older getRecommendations lists them, one line
\* each: name, the category text in capitals, rating in tenths; found, distance and
\* business_status are what searchPlaceByName resolves for the name (found = FALSE
\* when it returns null, NoDistance when the result carries no geometry)
GeminiLine(name, categoryRaw, rating, found, distance, business_status) ==
  [name |-> name, categoryRaw |-> categoryRaw, rating |-> rating, found |-> found,
   distance |-> distance, business_status |-> business_status]

GeminiPool ==
  ("l1" :> GeminiLine(<<"G","i","u","l","i","a">>, <<"E","A","T">>, 47, TRUE, 80, "OPERATIONAL")) @@
  ("l2" :> GeminiLine(<<"O","l","e","a","n","a">>, <<"E","A","T">>, 46, TRUE, 120, "OPERATIONAL")) @@
  ("l3" :> GeminiLine(<<"M","I","T"," ","M","u","s","e","u","m">>, <<"S","I","G","H","T">>, 46, TRUE, 160, "OPERATIONAL")) @@
  ("l4" :> GeminiLine(<<"H","a","r","b","o","r"," ","W","a","l","k">>, <<"O","U","T","D","O","O","R">>, 45, TRUE, 400, "OPERATIONAL")) @@
  ("l5" :> GeminiLine(<<"F","a","r"," ","G","r","i","l","l">>, <<"E","A","T">>, 45, TRUE, 2000, "OPERATIONAL")) @@
  ("l6" :> GeminiLine(<<"P","h","a","n","t","o","m"," ","D","i","n","e","r">>, <<"E","A","T">>, 45, FALSE, NoDistance, "OPERATIONAL")) @@
  ("l7" :> GeminiLine(<<"L","a","m","p","l","i","g","h","t","e","r">>, <<"D","R","I","N","K">>, 46, TRUE, NoDistance, "OPERATIONAL")) @@
  ("l8" :> GeminiLine(<<"D","a","l","i">>, <<"E","A","T">>, 45, TRUE, 130, "CLOSED_PERMANENTLY"))

(***************************************************************************)
(* Usage statistics (the usage service) and the search screen (App.tsx)    *)
(***************************************************************************)

\* FREE_TIER_LIMITS.searchesPerMonth
FREE_TIER_SEARCHES == 10

\* if (newPlaces.length < 8) setCanLoadMore(false), the screen in use
LOAD_MORE_THRESHOLD == 8
\* if (newPlaces.length < 4) setCanLoadMore(false), the older screen
LOAD_MORE_THRESHOLD_OLDER == 4

\* no item is stored under USAGE_STATS_KEY
NoUsage ==
  [present |-> FALSE, currentMonth |-> 0, searchCount |-> 0, placeViewCount |-> 0,
   totalSearchesAllTime |-> 0]

\* createNewMonthStats, without the user id and the timestamps
createNewMonthStats(currentMonth, totalSearches) ==
  [present |-> TRUE, currentMonth |-> currentMonth, searchCount |-> 0,
   placeViewCount |-> 0, totalSearchesAllTime |-> totalSearches]

\* getUsageStats for the stored item and the current month; nothing is written
getUsageStats(store, currentMonth) ==
  IF store.present
  THEN IF store.currentMonth # currentMonth
       THEN createNewMonthStats(currentMonth, store.totalSearchesAllTime)
       ELSE store
  ELSE createNewMonthStats(currentMonth, 0)

\* a limit test that lets the search after the tenth through
hasExceededFreeTierStrict(stats) == stats.searchCount > FREE_TIER_SEARCHES

\* hasExceededFreeTier, for the stats getUsageStats returned
hasExceededFreeTier(stats) == stats.searchCount >= FREE_TIER_SEARCHES

\* the stats trackSearch writes, for the stats it read
SearchTracked(stats) ==
  [stats EXCEPT !.searchCount = @ + 1, !.totalSearchesAllTime = @ + 1]

\* the stats trackPlaceView writes, for the stats it read
PlaceViewTracked(stats) == [stats EXCEPT !.placeViewCount = @ + 1]

\* today's entry of trackDailyUsage after one more event of the type
DailyTracked(daily, type) ==
  IF type = "search" THEN [daily EXCEPT !.searches = @ + 1]
  ELSE [daily EXCEPT !.placeViews = @ + 1]

\* data.places.filter(place => !hiddenPlaces.includes(place.name))
FilterHidden(dataPlaces, hidden) ==
  LET Shown(name) == name \notin hidden
  IN  SelectSeq(dataPlaces, Shown)

\* filteredPlaces.filter(p => !existingNames.has(p.name))
NewPlaces(prev, filteredPlaces) ==
  LET existingNames == { prev[i] : i \in DOMAIN prev }
      IsNew(name)   == name \notin existingNames
  IN  SelectSeq(filteredPlaces, IsNew)

\* the threshold of new places below which a screen stops offering load-more
LoadMoreThreshold(screen) ==
  IF screen = "current" THEN LOAD_MORE_THRESHOLD ELSE LOAD_MORE_THRESHOLD_OLDER

\* a load-more guard that does not look at canLoadMore
MayLoadMoreAlways(isLoadingMore, mayLoadMore) == ~isLoadingMore

\* handleLoadMore: if (loadingMore || !canLoadMore || !coords) return
MayLoadMore(isLoadingMore, mayLoadMore) == ~isLoadingMore /\ mayLoadMore

\* categoryKey = categoriesArray.length === 1 ? categoriesArray[0] : undefined
CategoryKey(filters) ==
  IF Cardinality(filters) = 1 THEN CHOOSE c \in filters : TRUE ELSE Undefined

\* toggleCategoryFilter: the active filter is cleared, another one replaces it
ToggleCategory(filters, category) ==
  IF category \in filters /\ Cardinality(filters) = 1 THEN {} ELSE {category}

\* the time to live of the cached results and of a place-details entry, in hours
CACHED_RESULTS_TTL_HOURS == 24
PLACE_DETAILS_TTL_HOURS == 24

\* no item under CACHED_RESULTS_KEY (getItem returns null)
NoCachedResults == [present |-> FALSE, places |-> <<>>, query |-> Undefined, timestamp |-> 0]

\* saveCachedResults: the item it stores, without city and coordinates
saveCachedResults(places, query, clock) ==
  [present |-> TRUE, places |-> places, query |-> query, timestamp |-> clock]

\* getCachedResults: its result (null is found = FALSE) and the item it leaves
getCachedResults(item, clock) ==
  IF ~item.present THEN [item |-> item, found |-> FALSE, places |-> <<>>]
  ELSE IF ParseThrows(item)
       THEN [item |-> item, found |-> FALSE, places |-> <<>>]  \* caught at line 164
  ELSE IF clock - item.timestamp > CACHED_RESULTS_TTL_HOURS
       THEN [item |-> NoCachedResults, found |-> FALSE, places |-> <<>>]
  ELSE [item |-> item, found |-> TRUE, places |-> item.places]

\* no item under CACHED_PLACE_DETAILS_KEY
NoDetailsItem == [present |-> FALSE, cache |-> <<>>]

\* cache[placeId] of the place-details cache: 0 when it has no such key
DetailIndex(cache, placeId) ==
  IF \E i \in DOMAIN cache : cache[i].placeId = placeId
  THEN CHOOSE i \in DOMAIN cache : cache[i].placeId = placeId
  ELSE 0

\* getCachedPlaceDetails: its result (null is found = FALSE) and the item it leaves
getCachedPlaceDetails(store, clock, placeId) ==
  LET cache == store.cache
      i     == DetailIndex(cache, placeId)
      IsOther(e) == e.placeId # placeId
  IN  IF ~store.present THEN [store |-> store, found |-> FALSE]
      ELSE IF ParseThrows(store) THEN [store |-> store, found |-> FALSE]  \* caught at line 216
      ELSE IF i = 0 THEN [store |-> store, found |-> FALSE]
      ELSE IF clock - cache[i].timestamp > PLACE_DETAILS_TTL_HOURS
           THEN [store |-> [present |-> TRUE, cache |-> SelectSeq(cache, IsOther)],
                 found |-> FALSE]
      ELSE [store |-> store, found |-> TRUE]

\* savePlaceDetailsToCache: the item it leaves in storage
savePlaceDetailsToCache(store, clock, placeId) ==
  LET cache   == IF store.present THEN store.cache ELSE <<>>
      i       == DetailIndex(cache, placeId)
      entry   == [placeId |-> placeId, timestamp |-> clock]
      added   == IF i = 0 THEN Append(cache, entry) ELSE [cache EXCEPT ![i] = entry]
      Fresh(e) == ~(clock - e.timestamp > PLACE_DETAILS_TTL_HOURS)
  IN  IF ParseThrows(store) THEN store  \* caught at line 253, nothing is written
      ELSE [present |-> TRUE, cache |-> SelectSeq(added, Fresh)]

\* fetchVibe calls made in one behaviour; only the first MaxOverlap of them are made
\* while another call is in flight
MaxFetches == 3
MaxOverlap == 2

\* times the app is started again in one behaviour
MaxLaunches == 1

\* the places whose card the user may hide
HideChoices == {"a1"}

\* trackSearch and trackPlaceView calls made in one behaviour, and the last month
MaxTrackOps == 4
MaxMonth == 3

\* the place names a run can return: eight, eight others, six of which one is
\* among the first eight, or none
RunResults ==
  { <<"a1", "a2", "a3", "a4", "a5", "a6", "a7", "a8">>,
    <<"b1", "b2", "b3", "b4", "b5", "b6", "b7", "b8">>,
    <<"a1", "c1", "c2", "c3", "c4", "c5">>,
    <<>> }

\* the coordinates and the query of the searches
AppLat == 42364
AppLng == 0 - 71059
AppQueries == {Undefined}

\* the filters the category buttons set
AppCategories == {"EAT"}

\* the usage item left by earlier sessions: none, 8 or 10 searches this month, 10
\* searches last month
UsageInits ==
  { NoUsage,
    [present |-> TRUE, currentMonth |-> 1, searchCount |-> 8, placeViewCount |-> 3,
     totalSearchesAllTime |-> 20],
    [present |-> TRUE, currentMonth |-> 1, searchCount |-> 10, placeViewCount |-> 3,
     totalSearchesAllTime |-> 30],
    [present |-> TRUE, currentMonth |-> 0, searchCount |-> 10, placeViewCount |-> 3,
     totalSearchesAllTime |-> 12] }

NoDaily == [searches |-> 0, placeViews |-> 0]

\* a fetchVibe call that has not been made
NoFetch ==
  [pc |-> "unused", append |-> FALSE, categoryKey |-> Undefined, query |-> Undefined,
   gridCacheHit |-> FALSE, data |-> <<>>, filtered |-> <<>>, stats |-> NoUsage,
   overlapped |-> FALSE, outcome |-> "none"]

\* a usage call that is not in progress
NoTrack == [pc |-> "idle", type |-> "none", month |-> 0, stats |-> NoUsage]

\* the record of the last write of the usage item before any write: the type of
\* the call, the item it replaced, the month the call took from getCurrentMonth
NoUsageWrite == [type |-> "none", before |-> NoUsage, month |-> 0]

\* the call returned: what it leaves behind is how it ended and what it applied
Returned(call, outcome) ==
  [call EXCEPT !.pc = "done", !.outcome = outcome, !.data = <<>>, !.stats = NoUsage]

\* no call has been made on the cached results or on the place-details cache
NoStoreOps == [last    |-> [op |-> "none", found |-> FALSE],
               details |-> [op |-> "none", found |-> FALSE]]

\* a grid-cache call that has not been made
NoGridCall == [pc |-> "idle", kind |-> "none", lat |-> 0, places |-> <<>>,
               hit |-> FALSE, count |-> 0, toWrite |-> NoItem,
               overlapped |-> FALSE]

NoGridCalls == [c \in 1..2 |-> NoGridCall]

\* batchSize of the details phase of getRecommendations
BATCH_SIZE == 10

\* no pass is fetching details
NoDetailRun == [pc |-> "idle", discoveries |-> <<>>, failing |-> {}, i |-> 0,
                inFlight |-> {}, batchResults |-> <<>>, placeDetails |-> <<>>,
                outOfOrder |-> FALSE]

\* what a details request for the place id resolves to: the details, or null when the
\* request fails (getPlaceDetailsByIdDirect and getPlaceFullDetails catch and return null)
DetailsOrNull(placeId, failing) ==
  IF placeId \in failing THEN [found |-> FALSE, id |-> 0] ELSE [found |-> TRUE, id |-> placeId]

\* the slot of a promise of the batch that has not resolved
Pending == [found |-> FALSE, id |-> 0 - 1]

\* a slice that takes all the remaining discoveries
BatchIndicesAll(i, n) == { j \in 1..n : i < j }

\* discoveries.slice(i, i + batchSize), as the indices of the discoveries
BatchIndices(i, n) == { j \in 1..n : i < j /\ j <= i + BATCH_SIZE }

\* Promise.all: the value a promise resolves to goes to the index of the promise
Settle(results, k, value) == [results EXCEPT ![k] = value]
(***************************************************************************)
(* State                                                                   *)
(***************************************************************************)

VARIABLES
  gridStore,     \* the blob stored under GRID_CACHE_KEY
  clock,         \* Date.now(), in hours
  gridLast,      \* the last grid-cache call: its arguments, its result, the cache before it
  gridPrev,      \* the grid-cache call before that
  gridSaved,     \* every (cell, category, query, places) that was saved
  gridOps,       \* number of grid-cache calls made
  pc,            \* where the aggregation run is: "idle", "fsq", "google", "legacy" or "done"
  run,           \* the arguments of the run
  currentRadius, \* currentRadius of the loop being executed
  attempts,      \* attempts of the loop being executed
  bestResults,   \* bestResults of getRecommendations (set = FALSE is null)
  bestRadius,    \* currentRadius of the pass that produced bestResults
  result,        \* the places the run returned
  resultRadius,  \* currentRadius of the pass that produced result
  calls,         \* provider search calls the run has made
  maxAccepted,   \* the largest number of places a pass of the run accepted
  reachedMin,    \* whether a pass of the run accepted MIN_PLACES places
  answered,      \* whether a provider search of the run returned a candidate
  outcome,       \* how the run ended: "none", "returned", "recovered" (returned by a
                 \* catch block) or "thrown"
  lastPassing,   \* the number of candidates that passed the filters of the pass that returned
  threw,         \* whether the last pass of the run ended in a catch block or threw
  usageStore,    \* the item stored under USAGE_STATS_KEY
  dailyUsage,    \* today's entry of the item stored under DAILY_USAGE_KEY
  month,         \* the month getCurrentMonth returns
  tracks,        \* the trackSearch and trackPlaceView calls in progress
  usageLast,     \* the last write of the usage item: its call, the item before it
  trackOps,      \* number of trackSearch and trackPlaceView calls made
  screen,        \* which screen runs: "current" (DiscoverScreen) or "older" (the older App)
  hiddenPlaces,  \* the names stored under HIDDEN_PLACES_KEY
  screenPlaces,  \* places of the screen: the names of the places on display, in order
  shownPlaces,   \* the names in shownPlaces
  error,         \* the error on display, "none" for null
  showUpgradePrompt,
  canLoadMore,
  loadingMore,
  loading,
  categoryFilters,
  lastSearch,    \* the item stored under CACHED_RESULTS_KEY
  fetches,       \* the fetchVibe calls, in the order they were made
  issued,        \* number of fetchVibe calls made
  runsStarted,   \* number of calls of an aggregation run made by fetchVibe
  launches,      \* number of times the app was started again
  detailsStore,  \* the item stored under CACHED_PLACE_DETAILS_KEY
  storeLast,     \* the last call on the cached results and on the place-details cache
  gridCalls,     \* the grid-cache calls that may overlap: what each has read and will write
  detailRun      \* the detail requests of one pass of getRecommendations

gridVars == <<gridStore, clock, gridLast, gridPrev, gridSaved, gridOps>>
aggVars == <<pc, run, currentRadius, attempts, bestResults, bestRadius, result,
             resultRadius, calls, maxAccepted, reachedMin, answered, outcome,
             lastPassing, threw>>
usageVars == <<usageStore, dailyUsage, month, tracks, usageLast, trackOps>>
screenVars == <<screen, hiddenPlaces, screenPlaces, shownPlaces, error, showUpgradePrompt,
                canLoadMore, loadingMore, loading, categoryFilters, lastSearch, fetches,
                issued, runsStarted, launches>>
storeVars == <<detailsStore, storeLast, gridCalls, detailRun>>
appVars == <<usageVars, screenVars, storeVars>>
vars == <<gridVars, aggVars, appVars>>

(***************************************************************************)
(* Aggregation: state, inputs and steps of a run                          *)
(***************************************************************************)

\* radiusKm of a run, in 1/100 km (3.2 km is the default of both functions)
RadiusChoices == {320}

\* selectedCategories of fetchVibe: none, one or several of EAT, DRINK, EXPLORE
CategoryChoices == { <<>>, <<"EAT">>, <<"EXPLORE">>, <<"DRINK", "EXPLORE">> }

\* excludePlaceNames: none, or the names shown before (a refresh)
ExcludeChoices ==
  { <<>>, << <<"O","l","e","a","n","a">>, <<"B","o","d","a"," ","B","o","r","g">> >> }

FsqList(ids) == [i \in DOMAIN ids |-> FsqPool[ids[i]]]
GoogleList(ids) == [i \in DOMAIN ids |-> GooglePool[ids[i]]]
OsmList(ids) == [i \in DOMAIN ids |-> OsmPool[ids[i]]]

\* responses of searchFoursquarePlaces: nothing, one place, or one of these lists
FsqResponses ==
  { <<>> }
    \cup { FsqList(<<id>>) : id \in DOMAIN FsqPool }
    \cup { FsqList(ids) : ids \in
             { <<"f01", "f02", "f03", "f04", "f05", "f06", "f07", "f08", "f09">>,
               <<"f14", "f09", "f08", "f13", "f07", "f06", "f12", "f05", "f04", "f03",
                 "f02", "f01">>,
               <<"f01", "f02", "f03", "f04", "f05", "f06", "f07", "f08", "f10">>,
               <<"f01", "f02", "f03", "f04", "f05", "f06", "f07", "f17", "f18">>,
               <<"f01", "f02", "f03">>,
               <<"f01", "f02", "f03", "f04", "f05", "f06", "f07", "f12", "f13">>,
               <<"f13", "f14", "f12", "f01", "f02">>,
               <<"f13", "f14", "f12", "f19", "f11", "f15", "f16", "f20", "f21">> } }

\* responses of places:searchText
GoogleResponses ==
  { <<>> }
    \cup { GoogleList(<<id>>) : id \in DOMAIN GooglePool }
    \cup { GoogleList(ids) : ids \in
             { <<"g01", "g02", "g03", "g04", "g05", "g06", "g07", "g08", "g09">>,
               <<"g20", "g09", "g08", "g19", "g07", "g06", "g18", "g05", "g04", "g03",
                 "g02", "g01">>,
               <<"g01", "g02", "g03">>,
               <<"g03", "g01", "g10", "g11", "g02">>,
               <<"g12", "g13", "g01", "g14">>,
               <<"g15", "g16", "g17", "g18", "g19", "g20", "g21">>,
               <<"g18", "g19", "g01", "g06">> } }

\* responses of searchOSMActivities
OsmResponses ==
  { OsmList(ids) : ids \in { <<>>, <<"o1">>, <<"o2", "o3">>, <<"o1", "o3", "o4", "o5">> } }

GeminiList(ids) == [i \in DOMAIN ids |-> GeminiPool[ids[i]]]

\* parsed lines of the Gemini answer of the older getRecommendations
GeminiResponses ==
  { GeminiList(ids) : ids \in
      { <<>>, <<"l1", "l2">>, <<"l1", "l2", "l3", "l7", "l4", "l8">>, <<"l5", "l6", "l1">> } }

\* place ids whose details request fails (getPlaceDetailsByIdDirect returns null)
FailingDetails == { {}, {"g02"} }

NoRun == [kind |-> "none", radiusKm |-> 0, categories |-> <<>>, excludePlaceNames |-> <<>>]

NoResults == [set |-> FALSE, places |-> <<>>]
NoCalls == [fsq |-> 0, google |-> 0, osm |-> 0, gemini |-> 0]

\* the grid-cache call record before any call
NoGridOp ==
  [op |-> "none", lat |-> 0, lng |-> 0, category |-> Undefined, query |-> Undefined,
   places |-> <<>>, hit |-> FALSE, before |-> <<>>, at |-> 0]

\* no run has been started; the grid cache is that of a fresh install
AggInit ==
  /\ pc = "idle"
  /\ run = NoRun
  /\ currentRadius = 0
  /\ attempts = 0
  /\ bestResults = NoResults
  /\ bestRadius = 0
  /\ result = <<>>
  /\ resultRadius = 0
  /\ calls = NoCalls
  /\ maxAccepted = 0
  /\ reachedMin = FALSE
  /\ answered = FALSE
  /\ outcome = "none"
  /\ lastPassing = 0
  /\ threw = FALSE
  /\ gridStore = NoItem
  /\ clock = 0
  /\ gridLast = NoGridOp
  /\ gridPrev = NoGridOp
  /\ gridSaved = {}
  /\ gridOps = 0
  /\ usageStore = NoUsage
  /\ dailyUsage = NoDaily
  /\ month = 1
  /\ tracks = [t \in 1..2 |-> NoTrack]
  /\ usageLast = NoUsageWrite
  /\ trackOps = 0
  /\ screen = "current"
  /\ hiddenPlaces = {}
  /\ screenPlaces = <<>>
  /\ shownPlaces = {}
  /\ error = "none"
  /\ showUpgradePrompt = FALSE
  /\ canLoadMore = TRUE
  /\ loadingMore = FALSE
  /\ loading = FALSE
  /\ categoryFilters = {}
  /\ lastSearch = NoCachedResults
  /\ fetches = [s \in 1..MaxFetches |-> NoFetch]
  /\ issued = 0
  /\ runsStarted = 0
  /\ launches = 0
  /\ detailsStore = NoDetailsItem
  /\ storeLast = NoStoreOps
  /\ gridCalls = NoGridCalls
  /\ detailRun = NoDetailRun

\* radiusKm * 1.2 when excludePlaceNames is non-empty (lines 661-670)
InitialRadiusGoogle(radiusKm, excludePlaceNames) ==
  IF excludePlaceNames # <<>> THEN (radiusKm * 12) \div 10 ELSE radiusKm

Max(a, b) == IF a > b THEN a ELSE b

\* fetchVibe calls getRecommendationsWithFoursquare (kind "foursquare") or
\* getRecommendations (kind "google"); the run is at its first search
StartRun(kind, radiusKm, categories, excludePlaceNames) ==
  /\ pc = "idle"
  /\ run' = [kind |-> kind, radiusKm |-> radiusKm, categories |-> categories,
             excludePlaceNames |-> excludePlaceNames]
  /\ pc' = CASE kind = "foursquare" -> "fsq"
             [] kind = "google" -> "google"
             [] kind = "legacy" -> "legacy"
  /\ currentRadius' = IF kind = "foursquare" THEN radiusKm
                      ELSE InitialRadiusGoogle(radiusKm, excludePlaceNames)
  /\ attempts' = 0
  /\ bestResults' = NoResults
  /\ bestRadius' = 0
  /\ result' = <<>>
  /\ resultRadius' = 0
  /\ calls' = NoCalls
  /\ maxAccepted' = 0
  /\ reachedMin' = FALSE
  /\ answered' = FALSE
  /\ outcome' = "none"
  /\ lastPassing' = 0
  /\ UNCHANGED <<gridVars, appVars>>
  /\ threw' = FALSE

\* while (attempts < MAX_ATTEMPTS) of getRecommendationsWithFoursquare
MoreAttemptsFsq(n) == n < MAX_ATTEMPTS_FSQ

\* one pass of the loop of getRecommendationsWithFoursquare
FsqAttempt(fsqPlaces, osmPlaces) ==
  /\ pc = "fsq"
  /\ MoreAttemptsFsq(attempts)
  /\ \E out \in { FsqPass(fsqPlaces, osmPlaces, attempts + 1, run.categories,
                          run.excludePlaceNames) } :
         /\ calls' = [calls EXCEPT !.fsq = @ + 1,
                                   !.osm = IF out.osmCalled THEN @ + 1 ELSE @]
         /\ maxAccepted' = Max(maxAccepted, Len(out.accepted))
         /\ reachedMin' = (reachedMin \/ Len(out.accepted) >=
                                           MinPlacesFsq(CategoryFilters(run.categories)))
         /\ answered' = (answered \/ fsqPlaces # <<>> \/ (out.osmCalled /\ osmPlaces # <<>>))
         /\ lastPassing' = IF out.exit = "return" THEN out.passing ELSE lastPassing
         /\ outcome' = IF out.exit = "return" THEN "returned" ELSE outcome
         /\ CASE out.exit = "continue" ->
                   /\ pc' = "fsq"
                   /\ attempts' = attempts + 1
                   /\ currentRadius' = (currentRadius * 3) \div 2
                   /\ UNCHANGED <<result, resultRadius>>
              [] out.exit = "google" ->
                   /\ pc' = "google"
                   /\ attempts' = 0
                   /\ currentRadius' = InitialRadiusGoogle(run.radiusKm, run.excludePlaceNames)
                   /\ UNCHANGED <<result, resultRadius>>
              [] out.exit = "return" ->
                   /\ pc' = "done"
                   /\ attempts' = attempts + 1
                   /\ result' = out.places
                   /\ resultRadius' = currentRadius
                   /\ UNCHANGED currentRadius
  /\ UNCHANGED <<run, bestResults, bestRadius, gridVars, appVars>>
  /\ threw' = FALSE

\* an exception inside the try block of getRecommendationsWithFoursquare (a
\* Foursquare place without a name makes place.name.toLowerCase() throw): the
\* catch returns no places
FsqThrow ==
  /\ pc = "fsq"
  /\ MoreAttemptsFsq(attempts)
  /\ attempts' = attempts + 1
  /\ calls' = [calls EXCEPT !.fsq = @ + 1]
  /\ pc' = "done"
  /\ result' = <<>>
  /\ resultRadius' = currentRadius
  /\ answered' = TRUE
  /\ outcome' = "recovered"
  /\ UNCHANGED <<run, currentRadius, bestResults, bestRadius, maxAccepted, reachedMin,
                 lastPassing, gridVars, appVars>>
  /\ threw' = TRUE

\* a loop test that allows one pass more
MoreAttemptsGoogleOneMore(n) == n <= MAX_ATTEMPTS_GOOGLE

\* while (attempts < MAX_ATTEMPTS) of getRecommendations
MoreAttemptsGoogle(n) == n < MAX_ATTEMPTS_GOOGLE

\* sortedPlaces of one pass of getRecommendations for what the search and the
\* details requests answer
GoogleSorted(apiPlaces, failing, radius, categories, excludePlaceNames) ==
  LET nearbyPlaces == ArraySort(getNearbyPlaces(apiPlaces, categories), CompareNearby)
      discoveries  == DiscoveriesOf(nearbyPlaces)
      placeDetails == [i \in DOMAIN discoveries |->
                         IF discoveries[i].placeId \in failing THEN NoDetails
                         ELSE GoogleDetailsPool[discoveries[i].placeId]]
      places       == PlacesOfDetails(placeDetails, discoveries, excludePlaceNames, radius)
  IN  SortedPlacesGoogle(places, categories, excludePlaceNames # <<>>)

\* finalPlaces of one pass of getRecommendations
GooglePass(apiPlaces, failing, radius, categories, excludePlaceNames) ==
  Slice(GoogleSorted(apiPlaces, failing, radius, categories, excludePlaceNames),
        GOOGLE_RESULT_CAP)

\* one pass of the loop of getRecommendations that reaches the end of its try block
GoogleAttempt(apiPlaces, failing) ==
  /\ pc = "google"
  /\ MoreAttemptsGoogle(attempts)
  /\ \E sortedPlaces \in { GoogleSorted(apiPlaces, failing, currentRadius, run.categories,
                                        run.excludePlaceNames) } :
     LET finalPlaces == Slice(sortedPlaces, GOOGLE_RESULT_CAP)
         better == ~bestResults.set \/ Len(finalPlaces) > Len(bestResults.places)
         best   == IF better THEN [set |-> TRUE, places |-> finalPlaces] ELSE bestResults
         bestAt == IF better THEN currentRadius ELSE bestRadius
         ends   == Len(finalPlaces) >= MIN_PLACES_GOOGLE \/ ~MoreAttemptsGoogle(attempts + 1)
     IN  /\ attempts' = attempts + 1
         /\ calls' = [calls EXCEPT !.google = @ + 1]
         /\ maxAccepted' = Max(maxAccepted, Len(finalPlaces))
         /\ reachedMin' = (reachedMin \/ Len(finalPlaces) >= MIN_PLACES_GOOGLE)
         /\ answered' = (answered \/ apiPlaces # <<>>)
         /\ lastPassing' = IF ends THEN Len(sortedPlaces) ELSE lastPassing
         /\ outcome' = IF ends THEN "returned" ELSE outcome
         /\ bestResults' = best
         /\ bestRadius' = bestAt
         /\ IF ends
            THEN /\ pc' = "done"
                 /\ result' = best.places
                 /\ resultRadius' = bestAt
                 /\ UNCHANGED currentRadius
            ELSE /\ pc' = "google"
                 /\ currentRadius' = currentRadius * 2
                 /\ UNCHANGED <<result, resultRadius>>
  /\ UNCHANGED <<run, gridVars, appVars>>
  /\ threw' = FALSE

\* one pass of the loop of getRecommendations that throws inside its try block (a
\* cached details record without a name makes details.name.toLowerCase() throw)
GoogleThrow ==
  /\ pc = "google"
  /\ MoreAttemptsGoogle(attempts)
  /\ attempts' = attempts + 1
  /\ calls' = [calls EXCEPT !.google = @ + 1]
  /\ IF attempts + 1 >= MAX_ATTEMPTS_GOOGLE
     THEN /\ pc' = "done"
          /\ result' = IF bestResults.set /\ bestResults.places # <<>>
                       THEN bestResults.places ELSE <<>>
          /\ resultRadius' = bestRadius
          /\ UNCHANGED currentRadius
     ELSE /\ pc' = "google"
          /\ currentRadius' = currentRadius * 2
          /\ UNCHANGED <<result, resultRadius>>
  /\ answered' = TRUE
  /\ outcome' = IF attempts + 1 >= MAX_ATTEMPTS_GOOGLE THEN "recovered" ELSE outcome
  /\ UNCHANGED <<run, bestResults, bestRadius, maxAccepted, reachedMin, lastPassing,
                 gridVars, appVars>>
  /\ threw' = TRUE

\* the older getRecommendations when the Gemini request answers: the answer is parsed,
\* the places are validated by name, and the final places are returned
LegacyAttempt(lines) ==
  /\ pc = "legacy"
  /\ pc' = "done"
  /\ attempts' = attempts + 1
  /\ calls' = [calls EXCEPT !.gemini = @ + 1]
  /\ result' = LegacyFinalPlaces(lines, run.radiusKm)
  /\ resultRadius' = currentRadius
  /\ maxAccepted' = Len(result')
  /\ answered' = (lines # <<>>)
  /\ lastPassing' = Len(result')
  /\ outcome' = "returned"
  /\ UNCHANGED <<run, currentRadius, bestResults, bestRadius, reachedMin, gridVars, appVars>>
  /\ threw' = FALSE

\* the older getRecommendations when the Gemini request fails: the catch block
\* returns its one made-up place
LegacyError ==
  /\ pc = "legacy"
  /\ pc' = "done"
  /\ attempts' = attempts + 1
  /\ calls' = [calls EXCEPT !.gemini = @ + 1]
  /\ result' = <<LegacyPlaceholder>>
  /\ resultRadius' = currentRadius
  /\ outcome' = "recovered"
  /\ UNCHANGED <<run, currentRadius, bestResults, bestRadius, maxAccepted, reachedMin,
                 answered, lastPassing, gridVars, appVars>>
  /\ threw' = TRUE

\* the older getRecommendations without GEMINI_API_KEY: getClient() throws before the
\* try block, so the call rejects
LegacyNoKey ==
  /\ pc = "legacy"
  /\ pc' = "done"
  /\ outcome' = "thrown"
  /\ UNCHANGED <<run, currentRadius, attempts, bestResults, bestRadius, result,
                 resultRadius, calls, maxAccepted, reachedMin, answered, lastPassing,
                 gridVars, appVars>>
  /\ threw' = TRUE

StartRunStep ==
  \E radiusKm \in RadiusChoices :
     \/ \E kind \in {"foursquare", "google"}, categories \in CategoryChoices,
           excludePlaceNames \in ExcludeChoices :
             StartRun(kind, radiusKm, categories, excludePlaceNames)
     \/ StartRun("legacy", radiusKm, <<>>, <<>>)

\* searchOSMActivities is called on the last pass of a search for EXPLORE only, so
\* its response is drawn for that pass only
FsqAttemptStep ==
  \E fsqPlaces \in FsqResponses :
     \E osmPlaces \in (IF ~MoreAttemptsFsq(attempts + 1)
                            /\ Contains(CategoryFilters(run.categories), "EXPLORE")
                        THEN OsmResponses ELSE {<<>>}) :
        FsqAttempt(fsqPlaces, osmPlaces)

GoogleAttemptStep ==
  \E apiPlaces \in GoogleResponses :
     \E failing \in { f \in FailingDetails :
                         \A id \in f : \E i \in DOMAIN apiPlaces : apiPlaces[i].id = id } :
        GoogleAttempt(apiPlaces, failing)

NextAgg ==
  \/ StartRunStep
  \/ FsqAttemptStep
  \/ FsqThrow
  \/ GoogleAttemptStep
  \/ GoogleThrow
  \/ \E lines \in GeminiResponses : LegacyAttempt(lines)
  \/ LegacyError
  \/ LegacyNoKey

(***************************************************************************)
(* Grid cache: state, inputs and operations                                *)
(***************************************************************************)

\* bounds of the grid-cache specification
MaxGridOps == 2
MaxClock == 13

\* the latitudes and the longitude a search is centred on (two grid cells)
GridLats == {42364}
GridLng == 0 - 71059

\* categoryKey of fetchVibe: the single selected category, or undefined
GridCategories == {Undefined, "EAT", "DRINK"}
GridQueries == {Undefined, "pizza", "sushi"}
GridPlaceLists == { <<"Giulia", "Oleana">>, <<"Oleana">> }

\* hours the clock may advance by in one step
ClockSteps == {6, 7}

\* a cache that earlier searches at other cells have filled: n entries, stored
\* with no category and no query, of search counts 1, 2 or 3
FillerEntry(i) ==
  StringifyEntry([gridKey     |-> <<5000 + i, (GridLng + 5) \div 10, "ALL">>,
                  places      |-> <<"Sarma">>,
                  timestamp   |-> 0,
                  searchCount |-> 1 + (i % 3),
                  category    |-> Undefined,
                  query       |-> Undefined])

FilledStore(n) == [present |-> TRUE, cache |-> [i \in 1..n |-> FillerEntry(i)]]

\* the cache is empty, or earlier searches have filled it with 99 or 100 entries;
\* no aggregation run is in progress
GridInit ==
  /\ gridStore \in {NoItem, FilledStore(MAX_GRID_ENTRIES - 1), FilledStore(MAX_GRID_ENTRIES)}
  /\ clock = 0
  /\ gridLast = NoGridOp
  /\ gridPrev = NoGridOp
  /\ gridSaved = {}
  /\ gridOps = 0
  /\ pc = "idle"
  /\ run = NoRun
  /\ currentRadius = 0
  /\ attempts = 0
  /\ bestResults = NoResults
  /\ bestRadius = 0
  /\ result = <<>>
  /\ resultRadius = 0
  /\ calls = NoCalls
  /\ maxAccepted = 0
  /\ reachedMin = FALSE
  /\ answered = FALSE
  /\ outcome = "none"
  /\ lastPassing = 0
  /\ threw = FALSE
  /\ usageStore = NoUsage
  /\ dailyUsage = NoDaily
  /\ month = 1
  /\ tracks = [t \in 1..2 |-> NoTrack]
  /\ usageLast = NoUsageWrite
  /\ trackOps = 0
  /\ screen = "current"
  /\ hiddenPlaces = {}
  /\ screenPlaces = <<>>
  /\ shownPlaces = {}
  /\ error = "none"
  /\ showUpgradePrompt = FALSE
  /\ canLoadMore = TRUE
  /\ loadingMore = FALSE
  /\ loading = FALSE
  /\ categoryFilters = {}
  /\ lastSearch = NoCachedResults
  /\ fetches = [s \in 1..MaxFetches |-> NoFetch]
  /\ issued = 0
  /\ runsStarted = 0
  /\ launches = 0
  /\ detailsStore = NoDetailsItem
  /\ storeLast = NoStoreOps
  /\ gridCalls = NoGridCalls
  /\ detailRun = NoDetailRun

\* a caller stores the places of a fresh search
GridSave(lat, lng, places, category, query) ==
  /\ gridOps < MaxGridOps
  /\ gridStore' = saveGridCachedResults(gridStore, clock, lat, lng, places, category, query)
  /\ gridLast' = [op |-> "save", lat |-> lat, lng |-> lng, category |-> category,
                  query |-> query, places |-> places, hit |-> FALSE,
                  before |-> gridStore.cache, at |-> clock]
  /\ gridPrev' = [gridLast EXCEPT !.before = <<>>]
  /\ gridSaved' = gridSaved \cup {<<getGridKey(lat, lng, Undefined), category, query, places>>}
  /\ gridOps' = gridOps + 1
  /\ UNCHANGED <<clock, aggVars, appVars>>

\* a caller looks a search up
GridGet(lat, lng, category, query) ==
  /\ gridOps < MaxGridOps
  /\ LET r == getGridCachedResults(gridStore, clock, lat, lng, category, query)
     IN  /\ gridStore' = r.store
         /\ gridLast' = [op |-> "get", lat |-> lat, lng |-> lng, category |-> category,
                         query |-> query, places |-> r.places, hit |-> r.hit,
                         before |-> gridStore.cache, at |-> clock]
  /\ gridPrev' = [gridLast EXCEPT !.before = <<>>]
  /\ gridOps' = gridOps + 1
  /\ UNCHANGED <<clock, gridSaved, aggVars, appVars>>

\* time passes
Tick(d) ==
  /\ clock + d <= MaxClock
  /\ clock' = clock + d
  /\ UNCHANGED <<gridStore, gridLast, gridPrev, gridSaved, gridOps, aggVars, appVars>>

(***************************************************************************)
(* The two specifications                                                  *)
(***************************************************************************)

GridSaveStep ==
  \E lat \in GridLats, places \in GridPlaceLists, category \in GridCategories,
     query \in GridQueries : GridSave(lat, GridLng, places, category, query)

GridGetStep ==
  \E lat \in GridLats, category \in GridCategories, query \in GridQueries :
       GridGet(lat, GridLng, category, query)

TickStep == \E d \in ClockSteps : Tick(d)

NextGrid == GridSaveStep \/ GridGetStep \/ TickStep

\* the grid cache on its own; no aggregation run is in progress
SpecGrid == GridInit /\ [][NextGrid]_vars

\* aggregation runs on their own; the grid cache stays empty
SpecAgg == AggInit /\ [][NextAgg]_vars


(***************************************************************************)
(* The search screen: fetchVibe calls in flight, load-more, the quota gate *)
(***************************************************************************)

\* the calls of fetchVibe that have been made and have not returned
InFlight == { s \in 1..MaxFetches : fetches[s].pc \notin {"unused", "done"} }

\* one more call of fetchVibe is within the bounds
MayFetch == issued < MaxFetches /\ (issued < MaxOverlap \/ InFlight = {})

\* the screen has just been opened: nothing is displayed, no call is in flight;
\* storage holds the usage item of earlier sessions and one hidden place
AppInit ==
  /\ screen \in {"current", "older"}
  /\ usageStore \in UsageInits
  /\ hiddenPlaces = {"c5"}
  /\ dailyUsage = NoDaily
  /\ month = 1
  /\ screenPlaces = <<>>
  /\ shownPlaces = {}
  /\ error = "none"
  /\ showUpgradePrompt = FALSE
  /\ canLoadMore = TRUE
  /\ loadingMore = FALSE
  /\ loading = FALSE
  /\ categoryFilters = {}
  /\ lastSearch = NoCachedResults
  /\ fetches = [s \in 1..MaxFetches |-> NoFetch]
  /\ issued = 0
  /\ runsStarted = 0
  /\ launches = 0
  /\ detailsStore = NoDetailsItem
  /\ storeLast = NoStoreOps
  /\ gridCalls = NoGridCalls
  /\ detailRun = NoDetailRun
  /\ tracks = [t \in 1..2 |-> NoTrack]
  /\ usageLast = NoUsageWrite
  /\ trackOps = 0
  /\ gridStore = NoItem
  /\ clock = 0
  /\ gridLast = NoGridOp
  /\ gridPrev = NoGridOp
  /\ gridSaved = {}
  /\ gridOps = 0
  /\ pc = "idle"
  /\ run = NoRun
  /\ currentRadius = 0
  /\ attempts = 0
  /\ bestResults = NoResults
  /\ bestRadius = 0
  /\ result = <<>>
  /\ resultRadius = 0
  /\ calls = NoCalls
  /\ maxAccepted = 0
  /\ reachedMin = FALSE
  /\ answered = FALSE
  /\ outcome = "none"
  /\ lastPassing = 0
  /\ threw = FALSE

\* what no action of the screen changes
AppFrame == UNCHANGED <<clock, gridLast, gridPrev, gridSaved, gridOps, aggVars, tracks,
                        usageLast, trackOps, month, screen, hiddenPlaces, launches,
                        storeVars>>

\* fetchVibe(latitude, longitude, query) is called for a new search: by handleSearch,
\* which has set loading (fromSearch), or by a refresh or the Hot & New switch.
\* The screen in use awaits the quota test first; the older screen sets its flags
\* and calls getRecommendations.
FetchVibe(query, fromSearch) ==
  /\ MayFetch
  /\ issued' = issued + 1
  /\ LET call == [NoFetch EXCEPT
                    !.query = query,
                    !.categoryKey = CategoryKey(categoryFilters),
                    !.overlapped = \E s \in InFlight : ~fetches[s].append]
     IN  IF screen = "current"
         THEN /\ fetches' = [fetches EXCEPT ![issued + 1] = [call EXCEPT !.pc = "gate"]]
              /\ loading' = (loading \/ fromSearch)
              /\ UNCHANGED <<canLoadMore, runsStarted>>
         ELSE /\ fetches' = [fetches EXCEPT ![issued + 1] = [call EXCEPT !.pc = "run"]]
              /\ loading' = TRUE
              /\ canLoadMore' = TRUE
              /\ runsStarted' = runsStarted + 1
  /\ UNCHANGED <<screenPlaces, shownPlaces, error, showUpgradePrompt, loadingMore,
                 categoryFilters, lastSearch, usageStore, dailyUsage, gridStore>>
  /\ AppFrame

\* toggleCategoryFilter and the effect on categoryFilters: with places on display
\* the effect clears shownPlaces, sets canLoadMore and calls fetchVibe
CategoryFilterChange(category) ==
  /\ screen = "current"
  /\ categoryFilters' = ToggleCategory(categoryFilters, category)
  /\ IF screenPlaces # <<>>
     THEN /\ MayFetch
          /\ issued' = issued + 1
          /\ shownPlaces' = {}
          /\ canLoadMore' = TRUE
          /\ fetches' = [fetches EXCEPT ![issued + 1] =
                           [NoFetch EXCEPT
                              !.pc = "gate",
                              !.categoryKey = CategoryKey(categoryFilters'),
                              !.overlapped = \E s \in InFlight : ~fetches[s].append]]
     ELSE UNCHANGED <<issued, shownPlaces, canLoadMore, fetches>>
  /\ UNCHANGED <<screenPlaces, error, showUpgradePrompt, loadingMore, loading, lastSearch,
                 runsStarted, usageStore, dailyUsage, gridStore>>
  /\ AppFrame

\* handleLoadMore: past its guard it calls fetchVibe with append = true, which sets
\* loadingMore and calls the run (no quota test, no cache lookup for an append)
HandleLoadMore(query) ==
  /\ MayLoadMore(loadingMore, canLoadMore)
  /\ MayFetch
  /\ issued' = issued + 1
  /\ loadingMore' = TRUE
  /\ runsStarted' = runsStarted + 1
  /\ fetches' = [fetches EXCEPT ![issued + 1] =
                   [NoFetch EXCEPT !.pc = "run", !.append = TRUE, !.query = query,
                                   !.categoryKey = CategoryKey(categoryFilters)]]
  /\ UNCHANGED <<screenPlaces, shownPlaces, error, showUpgradePrompt, canLoadMore, loading,
                 categoryFilters, lastSearch, usageStore, dailyUsage, gridStore>>
  /\ AppFrame

\* hasExceededFreeTier answers a new search: over the limit the call sets the
\* upgrade prompt and returns; under it the call sets loading and canLoadMore and
\* goes on to the grid-cache lookup
Gate(s) ==
  /\ fetches[s].pc = "gate"
  /\ IF hasExceededFreeTier(getUsageStats(usageStore, month))
     THEN /\ showUpgradePrompt' = TRUE
          /\ fetches' = [fetches EXCEPT ![s] = Returned(@, "gated")]
          /\ UNCHANGED <<loading, canLoadMore>>
     ELSE /\ loading' = TRUE
          /\ canLoadMore' = TRUE
          /\ fetches' = [fetches EXCEPT ![s].pc = "lookup"]
          /\ UNCHANGED showUpgradePrompt
  /\ UNCHANGED <<screenPlaces, shownPlaces, error, loadingMore, categoryFilters, lastSearch,
                 issued, runsStarted, usageStore, dailyUsage, gridStore>>
  /\ AppFrame

\* getGridCachedResults answers: cached places are taken as the data, otherwise
\* the run is called
Lookup(s) ==
  /\ fetches[s].pc = "lookup"
  /\ LET r == getGridCachedResults(gridStore, clock, AppLat, AppLng,
                                   fetches[s].categoryKey, fetches[s].query)
     IN  /\ gridStore' = r.store
         /\ IF r.hit /\ r.places # <<>>
            THEN /\ fetches' = [fetches EXCEPT ![s].pc = "hidden",
                                               ![s].gridCacheHit = TRUE,
                                               ![s].data = r.places]
                 /\ UNCHANGED runsStarted
            ELSE /\ fetches' = [fetches EXCEPT ![s].pc = "run"]
                 /\ runsStarted' = runsStarted + 1
  /\ UNCHANGED <<screenPlaces, shownPlaces, error, showUpgradePrompt, canLoadMore,
                 loadingMore, loading, categoryFilters, lastSearch, issued, usageStore, dailyUsage>>
  /\ AppFrame

\* the run returns its places
RunReturns(s, dataPlaces) ==
  /\ fetches[s].pc = "run"
  /\ fetches' = [fetches EXCEPT ![s].pc = "hidden", ![s].data = dataPlaces]
  /\ UNCHANGED <<screenPlaces, shownPlaces, error, showUpgradePrompt, canLoadMore,
                 loadingMore, loading, categoryFilters, lastSearch, issued, runsStarted, usageStore,
                 dailyUsage, gridStore>>
  /\ AppFrame

\* the run rejects: the catch block sets the error, the finally block clears the
\* loading flags
RunThrows(s) ==
  /\ fetches[s].pc = "run"
  /\ error' = "Failed to get recommendations. AI might be tired."
  /\ loading' = FALSE
  /\ loadingMore' = FALSE
  /\ fetches' = [fetches EXCEPT ![s] = Returned(@, "failed")]
  /\ UNCHANGED <<screenPlaces, shownPlaces, showUpgradePrompt, canLoadMore, categoryFilters,
                 lastSearch, issued, runsStarted, usageStore, dailyUsage, gridStore>>
  /\ AppFrame

\* getHiddenPlaces answers and the places are applied.  An append adds the new names
\* and clears canLoadMore when they are fewer than the threshold, then returns; a
\* new search replaces the places and, on the screen in use, goes on to trackSearch
Hidden(s) ==
  /\ fetches[s].pc = "hidden"
  /\ LET filteredPlaces == FilterHidden(fetches[s].data, hiddenPlaces)
         newPlaces      == NewPlaces(screenPlaces, filteredPlaces)
         applied        == [fetches[s] EXCEPT !.filtered = filteredPlaces]
     IN  /\ shownPlaces' = shownPlaces \cup { filteredPlaces[i] : i \in DOMAIN filteredPlaces }
         /\ IF fetches[s].append
            THEN /\ screenPlaces' = screenPlaces \o newPlaces
                 /\ canLoadMore' = IF Len(newPlaces) < LoadMoreThreshold(screen)
                                   THEN FALSE ELSE canLoadMore
                 /\ loading' = FALSE
                 /\ loadingMore' = FALSE
                 /\ fetches' = [fetches EXCEPT ![s] = Returned(applied, "applied")]
            ELSE /\ screenPlaces' = filteredPlaces
                 /\ UNCHANGED canLoadMore
                 /\ IF screen = "current"
                    THEN /\ fetches' = [fetches EXCEPT ![s] = [applied EXCEPT !.pc = "trackRead"]]
                         /\ UNCHANGED <<loading, loadingMore>>
                    ELSE /\ fetches' = [fetches EXCEPT ![s] = Returned(applied, "applied")]
                         /\ loading' = FALSE
                         /\ loadingMore' = FALSE
  /\ UNCHANGED <<error, showUpgradePrompt, categoryFilters, lastSearch, issued, runsStarted,
                 usageStore, dailyUsage, gridStore>>
  /\ AppFrame

\* trackSearch of a new search: getUsageStats answers
TrackRead(s) ==
  /\ fetches[s].pc = "trackRead"
  /\ fetches' = [fetches EXCEPT ![s].pc = "trackWrite",
                                ![s].stats = getUsageStats(usageStore, month)]
  /\ UNCHANGED <<screenPlaces, shownPlaces, error, showUpgradePrompt, canLoadMore,
                 loadingMore, loading, categoryFilters, lastSearch, issued, runsStarted, usageStore,
                 dailyUsage, gridStore>>
  /\ AppFrame

\* trackSearch of a new search: the incremented stats are stored, and
\* trackDailyUsage counts the search
TrackWrite(s) ==
  /\ fetches[s].pc = "trackWrite"
  /\ usageStore' = SearchTracked(fetches[s].stats)
  /\ dailyUsage' = DailyTracked(dailyUsage, "search")
  /\ fetches' = [fetches EXCEPT ![s].pc = "saveLast", ![s].stats = NoUsage]
  /\ UNCHANGED <<screenPlaces, shownPlaces, error, showUpgradePrompt, canLoadMore,
                 loadingMore, loading, categoryFilters, lastSearch, issued, runsStarted, gridStore>>
  /\ AppFrame

\* saveCachedResults stores the places; a search served from the grid cache then
\* returns through the finally block
SaveLast(s) ==
  /\ fetches[s].pc = "saveLast"
  /\ lastSearch' = saveCachedResults(fetches[s].filtered, fetches[s].query, clock)
  /\ IF fetches[s].gridCacheHit
     THEN /\ fetches' = [fetches EXCEPT ![s] = Returned(@, "applied")]
          /\ loading' = FALSE
          /\ loadingMore' = FALSE
     ELSE /\ fetches' = [fetches EXCEPT ![s].pc = "saveGrid"]
          /\ UNCHANGED <<loading, loadingMore>>
  /\ UNCHANGED <<screenPlaces, shownPlaces, error, showUpgradePrompt, canLoadMore,
                 categoryFilters, issued, runsStarted, usageStore, dailyUsage, gridStore>>
  /\ AppFrame

\* saveGridCachedResults stores the places of a fresh run; the call returns through
\* the finally block
SaveGrid(s) ==
  /\ fetches[s].pc = "saveGrid"
  /\ gridStore' = saveGridCachedResults(gridStore, clock, AppLat, AppLng,
                                        fetches[s].filtered, fetches[s].categoryKey,
                                        fetches[s].query)
  /\ loading' = FALSE
  /\ loadingMore' = FALSE
  /\ fetches' = [fetches EXCEPT ![s] = Returned(@, "applied")]
  /\ UNCHANGED <<screenPlaces, shownPlaces, error, showUpgradePrompt, canLoadMore,
                 categoryFilters, lastSearch, issued, runsStarted, usageStore, dailyUsage>>
  /\ AppFrame


\* handleHide of a place card on display: hidePlace stores the name, then
\* handleHidePlace takes the place off the list
HidePlace(placeName) ==
  /\ \E i \in DOMAIN screenPlaces : screenPlaces[i] = placeName
  /\ hiddenPlaces' = hiddenPlaces \cup {placeName}
  /\ screenPlaces' = FilterHidden(screenPlaces, {placeName})
  /\ UNCHANGED <<clock, gridVars, aggVars, usageVars, storeVars, screen, shownPlaces, error,
                 showUpgradePrompt, canLoadMore, loadingMore, loading, categoryFilters,
                 lastSearch, fetches, issued, runsStarted, launches>>

\* the app is started again while no call is in flight and handleLocate runs: the
\* state of the screen is the initial one; the screen in use shows the cached
\* results when there are any and calls fetchVibe otherwise, the older screen
\* calls fetchVibe
Relaunch ==
  /\ InFlight = {}
  /\ launches < MaxLaunches
  /\ launches' = launches + 1
  /\ shownPlaces' = {}
  /\ error' = "none"
  /\ showUpgradePrompt' = FALSE
  /\ canLoadMore' = TRUE
  /\ loadingMore' = FALSE
  /\ categoryFilters' = {}
  /\ LET cached == getCachedResults(lastSearch, clock)
         call   == [NoFetch EXCEPT !.query = Undefined, !.categoryKey = Undefined]
     IN  IF screen = "current" /\ cached.found /\ cached.places # <<>>
         THEN /\ lastSearch' = cached.item
              /\ screenPlaces' = cached.places
              /\ loading' = FALSE
              /\ UNCHANGED <<fetches, issued, runsStarted>>
         ELSE /\ issued < MaxFetches
              /\ issued' = issued + 1
              /\ lastSearch' = IF screen = "current" THEN cached.item ELSE lastSearch
              /\ screenPlaces' = <<>>
              /\ loading' = TRUE
              /\ IF screen = "current"
                 THEN /\ fetches' = [fetches EXCEPT ![issued + 1] = [call EXCEPT !.pc = "gate"]]
                      /\ UNCHANGED runsStarted
                 ELSE /\ fetches' = [fetches EXCEPT ![issued + 1] = [call EXCEPT !.pc = "run"]]
                      /\ runsStarted' = runsStarted + 1
  /\ UNCHANGED <<clock, gridVars, aggVars, usageVars, storeVars, screen, hiddenPlaces>>

NextApp ==
  \/ \E query \in AppQueries, fromSearch \in BOOLEAN : FetchVibe(query, fromSearch)
  \/ \E category \in AppCategories : CategoryFilterChange(category)
  \/ \E query \in AppQueries : HandleLoadMore(query)
  \/ \E s \in 1..MaxFetches : Gate(s)
  \/ \E s \in 1..MaxFetches : Lookup(s)
  \/ \E s \in 1..MaxFetches, dataPlaces \in RunResults : RunReturns(s, dataPlaces)
  \/ \E s \in 1..MaxFetches : RunThrows(s)
  \/ \E s \in 1..MaxFetches : Hidden(s)
  \/ \E s \in 1..MaxFetches : TrackRead(s)
  \/ \E s \in 1..MaxFetches : TrackWrite(s)
  \/ \E s \in 1..MaxFetches : SaveLast(s)
  \/ \E s \in 1..MaxFetches : SaveGrid(s)
  \/ \E placeName \in HideChoices : HidePlace(placeName)
  \/ Relaunch

SpecApp == AppInit /\ [][NextApp]_vars

(***************************************************************************)
(* The usage service on its own: trackSearch and trackPlaceView calls that *)
(* overlap, and months that pass                                           *)
(***************************************************************************)

\* the usage item a session starts with: none, or 3 searches this month
UsageInit ==
  /\ usageStore \in
       { NoUsage,
         [present |-> TRUE, currentMonth |-> 1, searchCount |-> 3, placeViewCount |-> 2,
          totalSearchesAllTime |-> 5] }
  /\ dailyUsage = NoDaily
  /\ month = 1
  /\ tracks = [t \in 1..2 |-> NoTrack]
  /\ usageLast = NoUsageWrite
  /\ trackOps = 0
  /\ screen = "current"
  /\ hiddenPlaces = {}
  /\ screenPlaces = <<>>
  /\ shownPlaces = {}
  /\ error = "none"
  /\ showUpgradePrompt = FALSE
  /\ canLoadMore = TRUE
  /\ loadingMore = FALSE
  /\ loading = FALSE
  /\ categoryFilters = {}
  /\ lastSearch = NoCachedResults
  /\ fetches = [s \in 1..MaxFetches |-> NoFetch]
  /\ issued = 0
  /\ runsStarted = 0
  /\ launches = 0
  /\ detailsStore = NoDetailsItem
  /\ storeLast = NoStoreOps
  /\ gridCalls = NoGridCalls
  /\ detailRun = NoDetailRun
  /\ gridStore = NoItem
  /\ clock = 0
  /\ gridLast = NoGridOp
  /\ gridPrev = NoGridOp
  /\ gridSaved = {}
  /\ gridOps = 0
  /\ pc = "idle"
  /\ run = NoRun
  /\ currentRadius = 0
  /\ attempts = 0
  /\ bestResults = NoResults
  /\ bestRadius = 0
  /\ result = <<>>
  /\ resultRadius = 0
  /\ calls = NoCalls
  /\ maxAccepted = 0
  /\ reachedMin = FALSE
  /\ answered = FALSE
  /\ outcome = "none"
  /\ lastPassing = 0
  /\ threw = FALSE

\* trackSearch (type "search") or trackPlaceView (type "placeView") is called and
\* its getUsageStats answers
UsageRead(t, type) ==
  /\ tracks[t].pc = "idle"
  /\ trackOps < MaxTrackOps
  /\ trackOps' = trackOps + 1
  /\ tracks' = [tracks EXCEPT ![t] = [pc |-> "write", type |-> type, month |-> month,
                                      stats |-> getUsageStats(usageStore, month)]]
  /\ UNCHANGED <<usageStore, dailyUsage, month, usageLast, screenVars, storeVars, gridVars, aggVars>>

\* the call stores the stats it read, incremented, and trackDailyUsage counts the
\* event
UsageWrite(t) ==
  /\ tracks[t].pc = "write"
  /\ usageStore' = IF tracks[t].type = "search" THEN SearchTracked(tracks[t].stats)
                   ELSE PlaceViewTracked(tracks[t].stats)
  /\ dailyUsage' = DailyTracked(dailyUsage, tracks[t].type)
  /\ usageLast' = [type |-> tracks[t].type, before |-> usageStore,
                   month |-> tracks[t].month]
  /\ tracks' = [tracks EXCEPT ![t] = NoTrack]
  /\ UNCHANGED <<month, trackOps, screenVars, storeVars, gridVars, aggVars>>

\* the month ends: getCurrentMonth returns the next month from now on
MonthChange ==
  /\ month < MaxMonth
  /\ month' = month + 1
  /\ UNCHANGED <<usageStore, dailyUsage, tracks, usageLast, trackOps, screenVars, storeVars, gridVars,
                 aggVars>>


NextUsage ==
  \/ \E t \in 1..2, type \in {"search", "placeView"} : UsageRead(t, type)
  \/ \E t \in 1..2 : UsageWrite(t)
  \/ MonthChange

SpecUsage == UsageInit /\ [][NextUsage]_vars

(***************************************************************************)
(* The three caches of services/storage.ts with items that may not parse   *)
(***************************************************************************)

\* the place id the details are cached for
StorePlaceIds == {"ChIJ1"}

\* each item is absent, is not JSON, or holds what an earlier session stored
StoreInit ==
  /\ gridStore \in {NoItem, CorruptItem,
                     saveGridCachedResults(NoItem, 0, AppLat, AppLng, <<"Oleana">>,
                                           Undefined, "pizza")}
  /\ lastSearch \in {NoCachedResults, CorruptItem,
                      saveCachedResults(<<"Oleana">>, Undefined, 0)}
  /\ detailsStore \in {NoDetailsItem, CorruptItem,
                        savePlaceDetailsToCache(NoDetailsItem, 0, "ChIJ1")}
  /\ storeLast = NoStoreOps
  /\ gridCalls = NoGridCalls
  /\ detailRun = NoDetailRun
  /\ clock = 0
  /\ gridLast = NoGridOp
  /\ gridPrev = NoGridOp
  /\ gridSaved = {}
  /\ gridOps = 0
  /\ pc = "idle"
  /\ run = NoRun
  /\ currentRadius = 0
  /\ attempts = 0
  /\ bestResults = NoResults
  /\ bestRadius = 0
  /\ result = <<>>
  /\ resultRadius = 0
  /\ calls = NoCalls
  /\ maxAccepted = 0
  /\ reachedMin = FALSE
  /\ answered = FALSE
  /\ outcome = "none"
  /\ lastPassing = 0
  /\ threw = FALSE
  /\ usageStore = NoUsage
  /\ dailyUsage = NoDaily
  /\ month = 1
  /\ tracks = [t \in 1..2 |-> NoTrack]
  /\ usageLast = NoUsageWrite
  /\ trackOps = 0
  /\ screen = "current"
  /\ hiddenPlaces = {}
  /\ screenPlaces = <<>>
  /\ shownPlaces = {}
  /\ error = "none"
  /\ showUpgradePrompt = FALSE
  /\ canLoadMore = TRUE
  /\ loadingMore = FALSE
  /\ loading = FALSE
  /\ categoryFilters = {}
  /\ fetches = [s \in 1..MaxFetches |-> NoFetch]
  /\ issued = 0
  /\ runsStarted = 0
  /\ launches = 0

StoreFrame == UNCHANGED <<gridVars, aggVars, usageVars, screen, hiddenPlaces, screenPlaces,
                          shownPlaces, error, showUpgradePrompt, canLoadMore, loadingMore,
                          loading, categoryFilters, fetches, issued, runsStarted,
                          launches, gridCalls, detailRun>>

\* getCachedResults() is called
LastGet ==
  /\ LET r == getCachedResults(lastSearch, clock)
     IN  /\ lastSearch' = r.item
         /\ storeLast' = [storeLast EXCEPT !.last = [op |-> "get", found |-> r.found]]
  /\ UNCHANGED detailsStore
  /\ StoreFrame

\* saveCachedResults(places, ...) is called
LastSave(places) ==
  /\ lastSearch' = saveCachedResults(places, Undefined, clock)
  /\ storeLast' = [storeLast EXCEPT !.last = [op |-> "save", found |-> FALSE]]
  /\ UNCHANGED detailsStore
  /\ StoreFrame

\* getCachedPlaceDetails(placeId) is called
DetailsGet(placeId) ==
  /\ LET r == getCachedPlaceDetails(detailsStore, clock, placeId)
     IN  /\ detailsStore' = r.store
         /\ storeLast' = [storeLast EXCEPT !.details = [op |-> "get", found |-> r.found]]
  /\ UNCHANGED lastSearch
  /\ StoreFrame

\* savePlaceDetailsToCache(placeId, details) is called
DetailsSave(placeId) ==
  /\ detailsStore' = savePlaceDetailsToCache(detailsStore, clock, placeId)
  /\ storeLast' = [storeLast EXCEPT !.details = [op |-> "save", found |-> FALSE]]
  /\ UNCHANGED lastSearch
  /\ StoreFrame

NextStore ==
  \/ \E places \in GridPlaceLists : GridSave(AppLat, AppLng, places, Undefined, Undefined)
  \/ \E query \in GridQueries : GridGet(AppLat, AppLng, Undefined, query)
  \/ TickStep
  \/ LastGet
  \/ \E places \in GridPlaceLists : LastSave(places)
  \/ \E placeId \in StorePlaceIds : DetailsGet(placeId)
  \/ \E placeId \in StorePlaceIds : DetailsSave(placeId)

\* the caches on their own
SpecStore == StoreInit /\ [][NextStore]_vars

(***************************************************************************)
(* Grid-cache calls that overlap: each call reads the item, and writes      *)
(* the item it computed from what it read                                  *)
(***************************************************************************)

\* the latitudes of the overlapping calls (two grid cells)
RaceLats == {42364, 42374}

\* the cache holds nothing, or what earlier searches at the two cells stored
RaceInit ==
  /\ gridStore \in
        {NoItem,
         saveGridCachedResults(NoItem, 0, 42364, GridLng, <<"Oleana">>, Undefined, Undefined),
         saveGridCachedResults(
            saveGridCachedResults(NoItem, 0, 42364, GridLng, <<"Oleana">>, Undefined,
                                  Undefined),
            0, 42374, GridLng, <<"Giulia">>, Undefined, Undefined)}
  /\ gridCalls = NoGridCalls
  /\ detailRun = NoDetailRun
  /\ clock = 0
  /\ gridLast = NoGridOp
  /\ gridPrev = NoGridOp
  /\ gridSaved = {}
  /\ gridOps = 0
  /\ pc = "idle"
  /\ run = NoRun
  /\ currentRadius = 0
  /\ attempts = 0
  /\ bestResults = NoResults
  /\ bestRadius = 0
  /\ result = <<>>
  /\ resultRadius = 0
  /\ calls = NoCalls
  /\ maxAccepted = 0
  /\ reachedMin = FALSE
  /\ answered = FALSE
  /\ outcome = "none"
  /\ lastPassing = 0
  /\ threw = FALSE
  /\ usageStore = NoUsage
  /\ dailyUsage = NoDaily
  /\ month = 1
  /\ tracks = [t \in 1..2 |-> NoTrack]
  /\ usageLast = NoUsageWrite
  /\ trackOps = 0
  /\ screen = "current"
  /\ hiddenPlaces = {}
  /\ screenPlaces = <<>>
  /\ shownPlaces = {}
  /\ error = "none"
  /\ showUpgradePrompt = FALSE
  /\ canLoadMore = TRUE
  /\ loadingMore = FALSE
  /\ loading = FALSE
  /\ categoryFilters = {}
  /\ lastSearch = NoCachedResults
  /\ fetches = [s \in 1..MaxFetches |-> NoFetch]
  /\ issued = 0
  /\ runsStarted = 0
  /\ launches = 0
  /\ detailsStore = NoDetailsItem
  /\ storeLast = NoStoreOps

RaceFrame == UNCHANGED <<clock, gridLast, gridPrev, gridSaved, gridOps, aggVars, usageVars,
                         screenVars, detailsStore, storeLast, detailRun>>

\* saveGridCachedResults or getGridCachedResults is called (lines 365 and 300) and
\* waits for AsyncStorage.getItem
RaceCall(c, kind, lat, places) ==
  /\ gridCalls[c].pc = "idle"
  /\ gridCalls' = [gridCalls EXCEPT ![c] = [NoGridCall EXCEPT !.pc = "read", !.kind = kind,
                                                             !.lat = lat, !.places = places]]
  /\ UNCHANGED gridStore
  /\ RaceFrame

\* AsyncStorage.getItem resolves (lines 302 and 377): the call computes from the item
\* it got the item it will write (lines 378-401, 348-350), or returns without a write
RaceRead(c) ==
  /\ gridCalls[c].pc = "read"
  /\ LET call    == gridCalls[c]
         gridKey == getGridKey(call.lat, GridLng, Undefined)
         stored  == KeyIndex(gridStore.cache, gridKey)
         r       == getGridCachedResults(gridStore, clock, call.lat, GridLng, Undefined,
                                         Undefined)
         toWrite == IF call.kind = "save"
                    THEN saveGridCachedResults(gridStore, clock, call.lat, GridLng,
                                               call.places, Undefined, Undefined)
                    ELSE r.store
         writes  == call.kind = "save" \/ r.store # gridStore
     IN  gridCalls' = [gridCalls EXCEPT ![c] =
            [call EXCEPT !.pc = IF writes THEN "write" ELSE "done",
                         !.hit = (call.kind = "get" /\ r.hit),
                         !.count = IF stored = 0 THEN 0
                                   ELSE gridStore.cache[stored].searchCount,
                         !.toWrite = toWrite,
                         !.overlapped = \E o \in 1..2 : o # c /\ gridCalls[o].pc = "write"]]
  /\ UNCHANGED gridStore
  /\ RaceFrame

\* AsyncStorage.setItem with the item the call computed (lines 351 and 402)
RaceWrite(c) ==
  /\ gridCalls[c].pc = "write"
  /\ gridStore' = gridCalls[c].toWrite
  /\ gridCalls' = [gridCalls EXCEPT ![c].pc = "done"]
  /\ RaceFrame

NextRace ==
  \/ \E c \in 1..2, lat \in RaceLats, places \in GridPlaceLists :
        RaceCall(c, "save", lat, places)
  \/ \E c \in 1..2, lat \in RaceLats : RaceCall(c, "get", lat, <<>>)
  \/ \E c \in 1..2 : RaceRead(c)
  \/ \E c \in 1..2 : RaceWrite(c)

\* two grid-cache calls that may overlap
SpecRace == RaceInit /\ [][NextRace]_vars

(***************************************************************************)
(* The details phase of one pass of getRecommendations                     *)
(***************************************************************************)

\* numbers of discoveries of a pass, and the place ids whose request fails
DiscoveryCounts == {0, 3, 10, 12}
FailingIds == { {}, {2} }

BatchInit ==
  /\ detailRun = NoDetailRun
  /\ gridStore = NoItem
  /\ gridCalls = NoGridCalls
  /\ clock = 0
  /\ gridLast = NoGridOp
  /\ gridPrev = NoGridOp
  /\ gridSaved = {}
  /\ gridOps = 0
  /\ pc = "idle"
  /\ run = NoRun
  /\ currentRadius = 0
  /\ attempts = 0
  /\ bestResults = NoResults
  /\ bestRadius = 0
  /\ result = <<>>
  /\ resultRadius = 0
  /\ calls = NoCalls
  /\ maxAccepted = 0
  /\ reachedMin = FALSE
  /\ answered = FALSE
  /\ outcome = "none"
  /\ lastPassing = 0
  /\ threw = FALSE
  /\ usageStore = NoUsage
  /\ dailyUsage = NoDaily
  /\ month = 1
  /\ tracks = [t \in 1..2 |-> NoTrack]
  /\ usageLast = NoUsageWrite
  /\ trackOps = 0
  /\ screen = "current"
  /\ hiddenPlaces = {}
  /\ screenPlaces = <<>>
  /\ shownPlaces = {}
  /\ error = "none"
  /\ showUpgradePrompt = FALSE
  /\ canLoadMore = TRUE
  /\ loadingMore = FALSE
  /\ loading = FALSE
  /\ categoryFilters = {}
  /\ lastSearch = NoCachedResults
  /\ fetches = [s \in 1..MaxFetches |-> NoFetch]
  /\ issued = 0
  /\ runsStarted = 0
  /\ launches = 0
  /\ detailsStore = NoDetailsItem
  /\ storeLast = NoStoreOps

BatchFrame == UNCHANGED <<gridVars, aggVars, usageVars, screenVars, detailsStore, storeLast,
                          gridCalls>>

\* batch.map(...) of the loop at line 827: a request is made for every discovery of
\* the slice, and Promise.all waits for them
Issue(phase, i) ==
  LET batch == BatchIndices(i, Len(phase.discoveries))
  IN  [phase EXCEPT !.pc = "await", !.i = i, !.inFlight = batch,
                  !.batchResults = [k \in 1..Cardinality(batch) |-> Pending]]

\* the details phase starts with the discoveries of the pass (line 827, i = 0)
BatchStart(n, failing) ==
  /\ detailRun.pc = "idle"
  /\ LET phase == [NoDetailRun EXCEPT !.discoveries = [j \in 1..n |-> j],
                                    !.failing = failing]
     IN  detailRun' = IF n = 0 THEN [phase EXCEPT !.pc = "done"] ELSE Issue(phase, 0)
  /\ BatchFrame

\* the request for discovery j resolves
RequestResolves(j) ==
  /\ detailRun.pc = "await"
  /\ j \in detailRun.inFlight
  /\ detailRun' =
       [detailRun EXCEPT
          !.inFlight = @ \ {j},
          !.batchResults = Settle(@, j - detailRun.i,
                                  DetailsOrNull(detailRun.discoveries[j], detailRun.failing)),
          !.outOfOrder = @ \/ \E e \in detailRun.inFlight : e < j]
  /\ BatchFrame

\* Promise.all resolves (line 837): the results are pushed (line 838); with
\* discoveries left the loop waits 100 ms (lines 841-843), else the phase is over
BatchJoin ==
  /\ detailRun.pc = "await"
  /\ detailRun.inFlight = {}
  /\ detailRun' =
       [detailRun EXCEPT
          !.placeDetails = @ \o detailRun.batchResults,
          !.batchResults = <<>>,
          !.pc = IF detailRun.i + BATCH_SIZE < Len(detailRun.discoveries)
                 THEN "delay" ELSE "done"]
  /\ BatchFrame

\* the delay is over: the next slice is taken (i += batchSize)
BatchNext ==
  /\ detailRun.pc = "delay"
  /\ detailRun' = Issue(detailRun, detailRun.i + BATCH_SIZE)
  /\ BatchFrame

NextBatch ==
  \/ \E n \in DiscoveryCounts, failing \in FailingIds : BatchStart(n, failing)
  \/ \E j \in detailRun.inFlight : RequestResolves(j)
  \/ BatchJoin
  \/ BatchNext

\* the details phase of one pass on its own
SpecBatch == BatchInit /\ [][NextBatch]_vars
(***************************************************************************)
(* Properties of the aggregation runs (SpecAgg)                            *)
(***************************************************************************)

\* C1: the names of a returned result, lowercased and trimmed, are pairwise
\* distinct.  The Foursquare loop never compares the names of two Foursquare
\* places, and the OSM merge compares names without trimming them.
C1_Dedup ==
  pc = "done" =>
    \A i, j \in DOMAIN result :
       i # j => NormalizeName(result[i].name) # NormalizeName(result[j].name)

C3_BestResult ==
  (pc = "done" /\ ~reachedMin) => Len(result) >= maxAccepted

\* C4, what getRecommendations does keep: every place of a result that it built from
\* Google details with a geometry lies within 1.5 times the radius of the pass that
\* produced the result; that radius is radiusKm, times 1.2 on a refresh, doubled
\* once per earlier pass.
C4_Distance ==
  pc = "done" =>
    \A i \in DOMAIN result :
       (result[i].source = "google" /\ result[i].distance # NoDistance) =>
          /\ 2 * result[i].distance <= 3 * resultRadius
          /\ \E k \in 0..(MAX_ATTEMPTS_GOOGLE - 1) :
                resultRadius = InitialRadiusGoogle(run.radiusKm, run.excludePlaceNames) * 2^k

\* C4, a result of getRecommendations with a Google place farther from the centre
\* than 1.5 times the radiusKm of the call: a later pass, with the radius doubled,
\* accepted it
C4_Witness ==
  /\ pc = "done"
  /\ \E i \in DOMAIN result :
        /\ result[i].source = "google"
        /\ result[i].distance # NoDistance
        /\ 2 * result[i].distance > 3 * run.radiusKm

\* C4: every place of a result with a resolved coordinate lies within 1.5 times the
\* radiusKm the run was called with, whatever the number of passes.  The Google loop
\* tests against the radius of the current pass, and the Foursquare loop tests no
\* distance at all.
C4_Original ==
  pc = "done" =>
    \A i \in DOMAIN result :
       result[i].distance # NoDistance => 2 * result[i].distance <= 3 * run.radiusKm

\* C5: no place of a returned result is permanently or temporarily closed.  The
\* Foursquare loop reads no business status (it is left to the place card).
C5_NoClosed ==
  pc = "done" => \A i \in DOMAIN result : ~IsClosedStatus(result[i].business_status)

\* C6: no place of a returned result has category UNKNOWN, and with a non-empty
\* categories filter every place of the result has a category of the filter
C6_Category ==
  pc = "done" =>
    \A i \in DOMAIN result :
       /\ result[i].category # "UNKNOWN"
       /\ run.categories # <<>> => Contains(run.categories, result[i].category)

\* C6, an EXPLORE search answered from Foursquare and OSM together
C6_Witness ==
  /\ pc = "done"
  /\ run.categories = <<"EXPLORE">>
  /\ \E i \in DOMAIN result : result[i].source = "foursquare"
  /\ \E i \in DOMAIN result : result[i].source = "osm"

(***************************************************************************)
(* Properties of the grid cache (SpecGrid)                                 *)
(***************************************************************************)

\* C7: a save followed by a lookup of the same coordinate, category and query within
\* the time to live returns the saved places in the same order, and the lookup
\* raises the entry's searchCount by one.  With 100 other keys in the cache the new
\* entry (searchCount 1, last in order) is the one the save evicts.
C7_RoundTrip ==
  (/\ gridLast.op = "get"
   /\ gridPrev.op = "save"
   /\ gridLast.lat = gridPrev.lat /\ gridLast.lng = gridPrev.lng
   /\ gridLast.category = gridPrev.category /\ gridLast.query = gridPrev.query
   /\ gridLast.at - gridPrev.at <= GRID_TTL_HOURS)
  => LET gridKey == getGridKey(gridLast.lat, gridLast.lng, gridLast.category)
         stored  == KeyIndex(gridLast.before, gridKey)
         found   == KeyIndex(gridStore.cache, gridKey)
     IN  /\ gridLast.hit
         /\ gridLast.places = gridPrev.places
         /\ stored # 0 /\ found # 0
         /\ gridStore.cache[found].searchCount = gridLast.before[stored].searchCount + 1

\* C8: after a save the cache holds at most 100 entries; a save of a new key into a
\* cache of 100 entries removes exactly one entry, one whose searchCount no
\* remaining entry is below, and leaves the other entries as they were
C8_Eviction ==
  gridLast.op = "save" =>
    LET before  == gridLast.before
        after   == gridStore.cache
        gridKey == getGridKey(gridLast.lat, gridLast.lng, gridLast.category)
        Keys(c) == { c[i].gridKey : i \in DOMAIN c }
        removed == (Keys(before) \cup {gridKey}) \ Keys(after)
        CountOf(k) == IF k = gridKey THEN 1 ELSE before[KeyIndex(before, k)].searchCount
    IN  /\ Len(after) <= MAX_GRID_ENTRIES
        /\ (Len(before) = MAX_GRID_ENTRIES /\ gridKey \notin Keys(before)) =>
             /\ Len(after) = MAX_GRID_ENTRIES
             /\ Cardinality(removed) = 1
             /\ \A k \in removed : \A i \in DOMAIN after : CountOf(k) <= after[i].searchCount
             /\ \A i \in DOMAIN before :
                   before[i].gridKey \notin removed =>
                      \E j \in DOMAIN after : after[j] = before[i]

\* C8, a save of a new key into a cache that holds 100 entries
C8_Witness ==
  /\ gridLast.op = "save"
  /\ Len(gridLast.before) = MAX_GRID_ENTRIES
  /\ \A i \in DOMAIN gridLast.before :
        gridLast.before[i].gridKey # getGridKey(gridLast.lat, gridLast.lng, gridLast.category)
  /\ Len(gridStore.cache) = MAX_GRID_ENTRIES

\* C9: a lookup is a hit only with places that were saved for the same cell under
\* exactly the category the lookup asks for (no category matching only no category)
C9_CategoryIsolation ==
  (gridLast.op = "get" /\ gridLast.hit) =>
    \E s \in gridSaved :
       /\ s[1] = getGridKey(gridLast.lat, gridLast.lng, Undefined)
       /\ s[2] = gridLast.category
       /\ s[4] = gridLast.places

\* C9, places saved for EAT and then looked up for DRINK in the same cell: a miss
C9_Witness ==
  /\ gridPrev.op = "save" /\ gridPrev.category = "EAT"
  /\ gridLast.op = "get" /\ gridLast.category = "DRINK"
  /\ gridLast.lat = gridPrev.lat /\ gridLast.lng = gridPrev.lng
  /\ gridLast.at = gridPrev.at
  /\ ~gridLast.hit

\* C10: a lookup that finds its entry more than 6 hours old is a miss and leaves
\* the cache without that entry and otherwise as it was
C10_Expiry ==
  gridLast.op = "get" =>
    LET before  == gridLast.before
        gridKey == getGridKey(gridLast.lat, gridLast.lng, gridLast.category)
        i       == KeyIndex(before, gridKey)
    IN  (i # 0 /\ gridLast.at - before[i].timestamp > GRID_TTL_HOURS) =>
          /\ ~gridLast.hit
          /\ gridStore.present
          /\ gridStore.cache = SubSeq(before, 1, i - 1) \o SubSeq(before, i + 1, Len(before))

\* C10, a lookup of an entry saved 7 hours before, in a cache with other entries
C10_Witness ==
  /\ gridLast.op = "get"
  /\ gridPrev.op = "save"
  /\ gridLast.at - gridPrev.at > GRID_TTL_HOURS
  /\ Len(gridLast.before) > 1
  /\ KeyIndex(gridLast.before,
              getGridKey(gridLast.lat, gridLast.lng, gridLast.category)) # 0
  /\ Len(gridStore.cache) = Len(gridLast.before) - 1


(***************************************************************************)
(* Properties of the results of a run: chains, names shown before, the     *)
(* EXPLORE fallback, failing providers, ranking                            *)
(***************************************************************************)

\* C14: no place of a returned result has a name that contains an entry of the
\* chain denylist, whichever provider supplied it
C14_NoChain ==
  pc = "done" => \A i \in DOMAIN result : ~isChainRestaurant(result[i].name)

\* C14, a run for EXPLORE whose last pass merged the OSM venues and returned
C14_Witness ==
  /\ pc = "done"
  /\ calls.osm = 1
  /\ \E i \in DOMAIN result : result[i].source = "osm"

\* C15: no place of a returned result has a name that equals, lowercased and
\* trimmed, a name of excludePlaceNames
C15_Exclude ==
  (pc = "done" /\ run.excludePlaceNames # <<>>) =>
    \A i \in DOMAIN result :
       ~IsExcluded(run.excludePlaceNames, Trim(ToLowerCase(result[i].name)))

\* C15, a refresh for EXPLORE whose last pass merged the OSM venues and returned
C15_Witness ==
  /\ pc = "done"
  /\ run.excludePlaceNames # <<>>
  /\ calls.osm = 1
  /\ \E i \in DOMAIN result : result[i].source = "osm"

\* C17: a run for EXPLORE only whose passes all accepted fewer than 4 places has,
\* after its last Foursquare search, called the OSM fallback once and returned,
\* without a further provider search
C17_ExploreFallback ==
  (/\ run.kind = "foursquare"
   /\ run.categories = <<"EXPLORE">>
   /\ calls.fsq = MAX_ATTEMPTS_FSQ
   /\ outcome # "recovered"
   /\ ~reachedMin) =>
    /\ pc = "done"
    /\ calls.osm = 1
    /\ calls.google = 0

\* C17, a run for EXPLORE only that made its last Foursquare search without having
\* accepted 4 places and handed over to getRecommendations
C17_Witness ==
  /\ run.kind = "foursquare"
  /\ run.categories = <<"EXPLORE">>
  /\ calls.fsq = MAX_ATTEMPTS_FSQ
  /\ calls.osm = 0
  /\ calls.google > 0

\* C18: a run that ended without any provider search having returned a candidate
\* returned (it did not throw) and returned no places
C18_AllFail ==
  (pc = "done" /\ ~answered) => (outcome # "thrown" /\ result = <<>>)

\* C18, the older getRecommendations after a failed Gemini request
C18_Witness ==
  /\ pc = "done"
  /\ run.kind = "legacy"
  /\ calls.gemini = 1
  /\ ~answered
  /\ outcome = "recovered"

C20_WitnessGoogle ==
  /\ pc = "done"
  /\ run.kind = "google"
  /\ run.categories = <<>>
  /\ lastPassing = 12
  /\ Len(result) = GOOGLE_RESULT_CAP

\* C25: when a pass of a run leaves the run at another search, the radius of the next
\* search is not below the radius of this pass; within the Foursquare loop it is 1.5
\* times that radius and within the loop of getRecommendations twice that radius
C25_RadiusGrows ==
  [][(calls' # calls /\ pc \in {"fsq", "google"} /\ pc' \in {"fsq", "google"}) =>
       /\ currentRadius' >= currentRadius
       /\ (pc = "fsq" /\ pc' = "fsq") => currentRadius' = (currentRadius * 3) \div 2
       /\ (pc = "google" /\ pc' = "google") => currentRadius' = currentRadius * 2]_vars

\* C25, a run that searched Foursquare three times and then Google
C25_Witness ==
  /\ calls.fsq = MAX_ATTEMPTS_FSQ
  /\ calls.google >= 1
  /\ pc = "google"

\* C27: a pass that ends in an error ends the run: it leaves the radius as it was,
\* and the run makes no search after it
C27_ErrorsAbort ==
  [][/\ threw' => (pc' = "done" /\ currentRadius' = currentRadius)
     /\ threw => calls' = calls]_vars

\* C27, a run that has ended with a pass of getRecommendations that threw
C27_Witness ==
  /\ pc = "done"
  /\ threw
  /\ calls.google >= 1

(***************************************************************************)
(* Properties of the search screen and of the usage service                *)
(***************************************************************************)

\* the grid cache holds places that a lookup by call s would be served
GridCacheServes(s) ==
  LET r == getGridCachedResults(gridStore, clock, AppLat, AppLng,
                                fetches[s].categoryKey, fetches[s].query)
  IN  r.hit /\ r.places # <<>>

\* C11: a new search that the grid cache can serve passes the quota test whatever
\* the monthly count is, and the trackSearch of a search served from the grid cache
\* leaves the monthly count as it was
C11_CacheBypass ==
  [][\A s \in 1..MaxFetches :
       /\ (fetches[s].pc = "gate" /\ fetches'[s].pc # "gate" /\ GridCacheServes(s)) =>
            fetches'[s].pc = "lookup"
       /\ (fetches[s].pc = "trackWrite" /\ fetches'[s].pc # "trackWrite"
             /\ fetches[s].gridCacheHit) =>
            getUsageStats(usageStore', month).searchCount =
              getUsageStats(usageStore, month).searchCount]_vars

\* C11, a new search that was refused at the quota test while the grid cache holds
\* places for it
C11_Witness ==
  \E s \in 1..MaxFetches :
     /\ fetches[s].outcome = "gated"
     /\ GridCacheServes(s)

\* C12: when the quota test of a new search finds the monthly count at 10 or more,
\* the call returns at once with the upgrade prompt set; it calls no run and leaves
\* the places on display, the error, the cached results and the grid cache as
\* they were
C12_QuotaGate ==
  [][\A s \in 1..MaxFetches :
       (/\ fetches[s].pc = "gate" /\ fetches'[s].pc # "gate"
        /\ getUsageStats(usageStore, month).searchCount >= FREE_TIER_SEARCHES) =>
         /\ fetches'[s].pc = "done"
         /\ fetches'[s].outcome = "gated"
         /\ showUpgradePrompt'
         /\ runsStarted' = runsStarted
         /\ UNCHANGED <<screenPlaces, error, lastSearch, gridStore>>]_vars

\* C12, a search refused at the quota test with the places of an earlier search on
\* display
C12_Witness ==
  /\ \E s \in 1..MaxFetches : fetches[s].outcome = "gated"
  /\ showUpgradePrompt
  /\ screenPlaces # <<>>
  /\ lastSearch.present
  /\ error = "none"
  /\ getUsageStats(usageStore, month).searchCount >= FREE_TIER_SEARCHES

\* C13: every write of the usage item leaves totalSearchesAllTime no smaller than it
\* was; a write by trackSearch leaves searchCount one above the count of the call's
\* month and totalSearchesAllTime one above the stored total, and over the item of
\* another month it leaves searchCount = 1 and placeViewCount = 0
C13_Rollover ==
  usageLast.type # "none" =>
    LET before    == usageLast.before
        thisMonth == getUsageStats(before, usageLast.month)
    IN  /\ usageStore.totalSearchesAllTime >= before.totalSearchesAllTime
        /\ usageLast.type = "search" =>
             /\ usageStore.searchCount = thisMonth.searchCount + 1
             /\ usageStore.totalSearchesAllTime = before.totalSearchesAllTime + 1
             /\ (before.present /\ before.currentMonth # usageLast.month) =>
                  (usageStore.searchCount = 1 /\ usageStore.placeViewCount = 0)

\* C13, trackSearch has written the first search of a new month over the item of
\* the month before
C13_Witness ==
  /\ usageLast.type = "search"
  /\ usageLast.before.present
  /\ usageLast.before.currentMonth # usageLast.month
  /\ usageStore.currentMonth = usageLast.month
  /\ usageStore.searchCount = 1
  /\ usageStore.totalSearchesAllTime = usageLast.before.totalSearchesAllTime + 1

\* C16: an append that adds fewer new names than the threshold of its screen leaves
\* canLoadMore false and the error as it was; no append is started while canLoadMore
\* is false; and while the screen stays mounted canLoadMore turns from false to true
\* only in a step of a new search
C16_LoadMore ==
  [][/\ \A s \in 1..MaxFetches :
          (fetches[s].append /\ fetches[s].pc = "hidden" /\ fetches'[s].pc = "done") =>
            LET newPlaces == NewPlaces(screenPlaces,
                                       FilterHidden(fetches[s].data, hiddenPlaces))
            IN  Len(newPlaces) < LoadMoreThreshold(screen) =>
                  (~canLoadMore' /\ error' = error)
     /\ (issued' = issued + 1 /\ fetches'[issued'].append) => canLoadMore
     /\ (~canLoadMore /\ canLoadMore' /\ launches' = launches) =>
          \E s \in 1..MaxFetches :
             /\ ~fetches'[s].append
             /\ fetches'[s].pc # fetches[s].pc
             /\ fetches'[s].pc \in {"gate", "lookup", "run"}]_vars

\* C16, an append has added fewer new names than the threshold to the places on
\* display: load-more is no longer offered and no error is shown
C16_Witness ==
  /\ \E s \in 1..MaxFetches :
        /\ fetches[s].append
        /\ fetches[s].outcome = "applied"
        /\ Len(fetches[s].filtered) > 0
  /\ ~canLoadMore
  /\ screenPlaces # <<>>
  /\ error = "none"

\* C19: when a new search was called while an earlier new search was in flight and
\* both have returned after applying their places, with no place hidden and no
\* restart since, the places on display, the
\* cached results and the grid-cache entry of the later search are those of the
\* later search
C19_LastIssuedWins ==
  \A s1, s2 \in 1..MaxFetches :
    (/\ s1 < s2
     /\ s2 = issued
     /\ InFlight = {}
     /\ launches = 0 /\ "a1" \notin hiddenPlaces
     /\ ~fetches[s1].append /\ fetches[s1].outcome = "applied"
     /\ ~fetches[s2].append /\ fetches[s2].outcome = "applied"
     /\ fetches[s2].overlapped) =>
      /\ screenPlaces = fetches[s2].filtered
      /\ screen = "current" =>
           /\ lastSearch.places = fetches[s2].filtered
           /\ ~fetches[s2].gridCacheHit =>
                LET gridKey == getGridKey(AppLat, AppLng, fetches[s2].categoryKey)
                    i       == KeyIndex(gridStore.cache, gridKey)
                IN  i # 0 /\ gridStore.cache[i].places = fetches[s2].filtered

\* C19, two new searches that overlapped have both applied their places and returned
C19_Witness ==
  /\ issued = 2
  /\ InFlight = {}
  /\ \A s \in 1..2 : ~fetches[s].append /\ fetches[s].outcome = "applied"
  /\ fetches[2].overlapped
  /\ fetches[1].filtered # fetches[2].filtered

\* C22: a step that loads the list of places (a fetchVibe call applying its places,
\* or a restart showing the cached results) leaves on display no name that is in
\* the stored hidden places
C22_HiddenFilter ==
  [][((\E s \in 1..MaxFetches : fetches[s].pc = "hidden" /\ fetches'[s].pc # "hidden")
        \/ launches' # launches) =>
       \A i \in DOMAIN screenPlaces' : screenPlaces'[i] \notin hiddenPlaces']_vars

\* C22, a restart has put the cached results on display
C22_Witness ==
  /\ launches = 1
  /\ issued = 1
  /\ InFlight = {}
  /\ lastSearch.present
  /\ screenPlaces = lastSearch.places
  /\ screenPlaces # <<>>

(***************************************************************************)
(* Properties of the stored items                                          *)
(***************************************************************************)

\* C21: after a lookup of the grid cache, of the cached results or of the
\* place-details cache, the item of that cache parses: a lookup that met an item
\* that does not parse has cleared it, so the next lookup does not meet it again
C21_CorruptCleared ==
  /\ gridLast.op = "get" => ~ParseThrows(gridStore)
  /\ storeLast.last.op = "get" => ~ParseThrows(lastSearch)
  /\ storeLast.details.op = "get" => ~ParseThrows(detailsStore)

\* C21, two lookups of the grid cache in a row have met an item that does not parse,
\* and both were misses
C21_Witness ==
  /\ gridLast.op = "get" /\ gridPrev.op = "get"
  /\ ~gridLast.hit /\ ~gridPrev.hit
  /\ ParseThrows(gridStore)

\* C23: a lookup that is a hit writes the entry back with searchCount one higher and
\* with the time of the lookup as its timestamp, everything else as it was; a lookup
\* that finds its entry no more than 6 hours after the entry's timestamp, with no
\* category or query mismatch, is a hit (so hits no more than 6 hours apart keep the
\* entry for good); a lookup that misses on a category or query mismatch leaves the
\* cache as it was
C23_RefreshOnRead ==
  gridLast.op = "get" =>
    LET before  == gridLast.before
        after   == gridStore.cache
        gridKey == getGridKey(gridLast.lat, gridLast.lng, gridLast.category)
        stored  == KeyIndex(before, gridKey)
        found   == KeyIndex(after, gridKey)
        mismatch == \/ GridCategoryMiss(before[stored], gridLast.category)
                    \/ GridQueryMiss(before[stored], gridLast.query)
    IN  /\ gridLast.hit =>
             /\ stored # 0 /\ found # 0
             /\ after[found] = [before[stored] EXCEPT
                                  !.searchCount = before[stored].searchCount + 1,
                                  !.timestamp = gridLast.at]
             /\ \A i \in DOMAIN before :
                   i # stored => \E j \in DOMAIN after : after[j] = before[i]
             /\ Len(after) = Len(before)
        /\ (stored # 0 /\ gridLast.at - before[stored].timestamp <= GRID_TTL_HOURS
                       /\ ~mismatch) => gridLast.hit
        /\ (stored # 0 /\ gridLast.at - before[stored].timestamp <= GRID_TTL_HOURS
                       /\ mismatch) => (~gridLast.hit /\ after = before)

\* C23, an entry stored at time 0 that is hit at 6 hours and hit again at 12 hours
C23_Witness ==
  /\ gridPrev.op = "get" /\ gridPrev.hit /\ gridPrev.at = GRID_TTL_HOURS
  /\ gridLast.op = "get" /\ gridLast.hit /\ gridLast.at = 2 * GRID_TTL_HOURS
  /\ gridOps = 2
  /\ \E i \in DOMAIN gridStore.cache :
        gridStore.cache[i].searchCount = 3 /\ gridStore.cache[i].timestamp = gridLast.at

\* C24: a lookup with a query that finds, no more than 6 hours after the entry's
\* timestamp, an entry stored with a different query is a miss and leaves the cache
\* as it was
C24_QueryMismatch ==
  gridLast.op = "get" =>
    LET before == gridLast.before
        stored == KeyIndex(before, getGridKey(gridLast.lat, gridLast.lng, gridLast.category))
    IN  (/\ stored # 0
         /\ Truthy(gridLast.query)
         /\ Truthy(EntryField(before[stored], "query"))
         /\ EntryField(before[stored], "query") # gridLast.query
         /\ ~GridEntryExpired(before[stored], gridLast.at))
        => /\ ~gridLast.hit
           /\ gridLast.places = <<>>
           /\ gridStore.cache = before

\* C24 as stated, whatever the age of the entry: a miss that leaves the entry in place
C24_Original ==
  gridLast.op = "get" =>
    LET before == gridLast.before
        gridKey == getGridKey(gridLast.lat, gridLast.lng, gridLast.category)
        stored == KeyIndex(before, gridKey)
        found  == KeyIndex(gridStore.cache, gridKey)
    IN  (/\ stored # 0
         /\ Truthy(gridLast.query)
         /\ Truthy(EntryField(before[stored], "query"))
         /\ EntryField(before[stored], "query") # gridLast.query)
        => /\ ~gridLast.hit
           /\ found # 0
           /\ gridStore.cache[found] = before[stored]

\* C24, places saved for one query and looked up in time with another: a miss
C24_Witness ==
  /\ gridPrev.op = "save" /\ gridPrev.query = "pizza"
  /\ gridLast.op = "get" /\ gridLast.query = "sushi"
  /\ gridLast.lat = gridPrev.lat /\ gridLast.category = gridPrev.category
  /\ gridLast.at - gridPrev.at <= GRID_TTL_HOURS
  /\ KeyIndex(gridLast.before,
              getGridKey(gridLast.lat, gridLast.lng, gridLast.category)) # 0
  /\ ~gridLast.hit

\* C30: a lookup is a hit only with places that were saved for the same cell and
\* category under exactly the query the lookup asks for (no query matching only
\* no query)
C30_QueryIsolation ==
  (gridLast.op = "get" /\ gridLast.hit) =>
    \E s \in gridSaved :
       /\ s[1] = getGridKey(gridLast.lat, gridLast.lng, Undefined)
       /\ s[2] = gridLast.category
       /\ s[3] = gridLast.query
       /\ s[4] = gridLast.places

\* C30, places saved under a query and returned to a lookup with no query
C30_Witness ==
  /\ gridPrev.op = "save" /\ gridPrev.query = "pizza"
  /\ gridLast.op = "get" /\ gridLast.query = Undefined
  /\ gridLast.lat = gridPrev.lat /\ gridLast.category = gridPrev.category
  /\ gridLast.hit /\ gridLast.places = gridPrev.places

\* C28: when two grid-cache calls for different grid keys have both completed, the
\* cache holds the places of every save among them, and every hit among them has
\* left the searchCount of its entry one above the count it read
C28_BothKept ==
  (/\ gridCalls[1].pc = "done" /\ gridCalls[2].pc = "done"
   /\ getGridKey(gridCalls[1].lat, GridLng, Undefined)
         # getGridKey(gridCalls[2].lat, GridLng, Undefined))
  => \A c \in 1..2 :
        LET call  == gridCalls[c]
            found == KeyIndex(gridStore.cache, getGridKey(call.lat, GridLng, Undefined))
        IN  /\ call.kind = "save" =>
                 (found # 0 /\ gridStore.cache[found].places = call.places)
            /\ call.hit =>
                 (found # 0 /\ gridStore.cache[found].searchCount = call.count + 1)

\* C28, two saves for different cells of which the second read the item before the
\* first wrote it, both completed
C28_Witness ==
  /\ gridCalls[1].pc = "done" /\ gridCalls[2].pc = "done"
  /\ gridCalls[1].kind = "save" /\ gridCalls[2].kind = "save"
  /\ gridCalls[1].lat # gridCalls[2].lat
  /\ gridCalls[2].overlapped
  /\ Len(gridStore.cache) = 1

\* C29: while the month stays the same, every trackSearch call that completes leaves
\* the persisted searchCount one above the persisted count it replaces and the
\* placeViewCount as it was persisted, and every trackPlaceView call that completes
\* does the same for placeViewCount (so that the counters grow by the number of calls)
C29_CountsEveryEvent ==
  [][\A t \in 1..2 :
       (month = 1 /\ tracks[t].pc = "write" /\ tracks'[t].pc = "idle") =>
          LET persisted == getUsageStats(usageStore, month)
          IN  /\ usageStore'.searchCount =
                   persisted.searchCount + (IF tracks[t].type = "search" THEN 1 ELSE 0)
              /\ usageStore'.placeViewCount =
                   persisted.placeViewCount + (IF tracks[t].type = "placeView" THEN 1 ELSE 0)]_vars

\* C29, two trackSearch calls and one trackPlaceView call have completed within the
\* first month and no call is in progress, and the item counts one search and no view
C29_Witness ==
  /\ month = 1
  /\ \A t \in 1..2 : tracks[t].pc = "idle"
  /\ dailyUsage.searches = 2 /\ dailyUsage.placeViews = 1
  /\ usageStore.present
  /\ usageStore.totalSearchesAllTime = 1 /\ usageStore.searchCount = 1
  /\ usageStore.placeViewCount = 0

\* C26: at most 10 detail requests are in flight; the requests in flight all belong
\* to the current slice, and every discovery before the slice has its result in
\* placeDetails; when the phase is over placeDetails[j] is what the request for
\* discoveries[j] resolved to, for every j
C26_BoundedBatches ==
  LET n == Len(detailRun.discoveries)
  IN  /\ Cardinality(detailRun.inFlight) <= BATCH_SIZE
      /\ detailRun.pc = "await" =>
            /\ detailRun.inFlight \subseteq BatchIndices(detailRun.i, n)
            /\ Len(detailRun.placeDetails) = detailRun.i
      /\ detailRun.pc = "done" =>
            /\ Len(detailRun.placeDetails) = n
            /\ \A j \in 1..n :
                  detailRun.placeDetails[j] =
                     DetailsOrNull(detailRun.discoveries[j], detailRun.failing)

\* C26, a phase of 12 discoveries, one of whose requests failed, is over, and some
\* request resolved before a request made before it
C26_Witness ==
  /\ detailRun.pc = "done"
  /\ Len(detailRun.discoveries) = 12
  /\ detailRun.failing # {}
  /\ detailRun.outOfOrder
====
